---- MODULE Spec2Model ----
(***************************************************************************)
(* A model of the tcdicn node runtime (src/tcdicn.py): the peer, client,   *)
(* route, interest and content tables of a Node, its two batching queues,  *)
(* the expiry timers installed with do_after, and the handlers on_peer,    *)
(* on_advert, on_get, on_set, on_message, batch_send and the client API.   *)
(*                                                                         *)
(* Time is an integer clock `now` (seconds).  Timestamps (eol, at,         *)
(* deadline) are integers on the same scale.  A timer installed by         *)
(* do_after(eol, cb) may fire in any state with now >= eol.                *)
(*                                                                         *)
(* Python objects that are shared by reference are modelled by flags:      *)
(*   - a send-queue tuple whose `routes` is the list object held in        *)
(*     self.routes[client] has alias = TRUE; its routes are read from the  *)
(*     route table until that list object leaves the table;                *)
(*   - a send-queue tuple whose item is the SetItem object held in         *)
(*     self.content_store[label] has sref = TRUE.                          *)
(* queue.PriorityQueue orders tuples by deadline; entries with equal       *)
(* deadlines are taken in any order.                                       *)
(***************************************************************************)
EXTENDS Integers, Sequences, FiniteSets, TLC

VARIABLES
    nodes,      \* node name -> the fields of that Node object
    now,        \* time.time()
    net,        \* messages on the wire between the nodes of a network
    last        \* the operation that produced the current state, with its inputs

vars == <<nodes, now, net, last>>

None == "none"

\* ---------------------------------------------------------------- bounds
MaxTime == 1        \* the clock runs 0..MaxTime
MaxIds == 2         \* send-queue tuples one node creates
MaxAdverts == 2     \* broadcast-queue tuples one node creates
MaxEol == 2         \* largest eol / at a received item carries
MaxNetTime == 5     \* the clock of a network runs 1..MaxNetTime
CallBy == 2         \* the applications call get and set up to this time
MaxFlushTime == 3
MaxBids == 3
MaxJoinTime == 5
JoinBy == 2
MaxFwdTime == 3
MaxTtpTime == 6
MaxCallers == 3
MaxPubTime == 2
MaxPubIds == 4
MaxPubAdverts == 3
MaxRerouteTime == 36
RerouteBy == 2      \* messages arrive up to this time
MaxKeyChanges == 3  \* group keys one node obtains
MaxGroupAt == 2      \* times of the values published under the group

\* ------------------------------------------------------ program constants
MAX_SCORE == 10000
DEADLINE_EXT == 10

\* ------------------------------------------------- partial maps (dicts)
Put(f, k, v) == [x \in (DOMAIN f) \cup {k} |-> IF x = k THEN v ELSE f[x]]
Del(f, k) == [x \in (DOMAIN f) \ {k} |-> f[x]]
EmptyMap == [x \in {} |-> None]

\* the elements of a sequence, and a set laid out as a sequence (iteration
\* order of a dict's values)
Range(seq) == {seq[i] : i \in 1..Len(seq)}
RECURSIVE SetToSeq(_)
SetToSeq(S) ==
    IF S = {} THEN <<>>
    ELSE LET x == CHOOSE y \in S : TRUE IN <<x>> \o SetToSeq(S \ {x})

\* ------------------------------------------------------- message items
PeerItem(eol) == [t |-> "p", eol |-> eol]
AdvertItem(client, labels, score, ttp, eol) ==
    [t |-> "a", client |-> client, labels |-> labels, score |-> score,
     ttp |-> ttp, eol |-> eol]
GetItem(client, label, after, ttp, eol) ==
    [t |-> "g", client |-> client, label |-> label, after |-> after,
     ttp |-> ttp, eol |-> eol]
SetItem(label, data, at, dst) ==
    [t |-> "s", label |-> label, data |-> data, at |-> at, dst |-> dst]

\* ----------------------------------------------------------------- Node
\* Node.__init__ and the part of Node.start that sets is_main and advert
NewNode(is_main, advert) ==
    [is_main |-> is_main,
     advert |-> advert,
     peers |-> EmptyMap,
     clients |-> EmptyMap,
     interests |-> EmptyMap,
     routes |-> EmptyMap,
     content_store |-> EmptyMap,
     timers |-> {},
     broadcast_queue |-> {},
     is_broadcast_queue_changed |-> FALSE,
     batch_broadcast_task |-> {},
     send_queue |-> {},
     is_send_queue_changed |-> FALSE,
     batch_send_task |-> {},
     inflight |-> {},
     waiters |-> {},
     next_id |-> 0,
     next_bid |-> 0,
     sent |-> {}]

\* the advert of a node started without a client (self.advert = None)
NoAdvert == [client |-> None, labels |-> <<>>, score |-> 0, ttp |-> 0]
\* the advert of a node started with client = {name, labels, ttp}
OwnAdvert(name, labels, ttp) ==
    [client |-> name, labels |-> labels, score |-> MAX_SCORE, ttp |-> ttp]
\* OwnClient of a node that takes itself for a relay
OwnClient_None(s) == None

\* self.advert.client, None when self.advert is None
OwnClient(s) == s.advert.client

\* do_after(eol, callback): a pending timer task; key is <<addr, None>>,
\* <<client, None>> or <<label, client>>
Timer(kind, key, eol) == [kind |-> kind, key |-> key, eol |-> eol]

\* --------------------------------------------------------------- queues
\* the routes a queued tuple carries now
Resolve(s, e) ==
    IF e.alias /\ e.client \in DOMAIN s.routes THEN s.routes[e.client]
    ELSE e.routes

\* the item a queued tuple carries now
ItemOf(s, e) ==
    IF e.sref /\ e.item.label \in DOMAIN s.content_store
    THEN LET c == s.content_store[e.item.label]
         IN SetItem(c.label, c.data, c.at, c.dst)
    ELSE e.item

\* self.send_queue.put_nowait((deadline, client, routes, item)) with
\* routes = self.routes[client] if client in self.routes else []
PutSend(s, deadline, client, item, sref) ==
    [s EXCEPT
        !.send_queue = @ \cup
            {[id |-> s.next_id, deadline |-> deadline, client |-> client,
              alias |-> client \in DOMAIN s.routes, routes |-> <<>>,
              item |-> item, sref |-> sref]},
        !.next_id = @ + 1,
        !.is_send_queue_changed = TRUE]

\* self.broadcast_queue.put_nowait((deadline, advert)): the queued advert is
\* the AdvertItem object stored in self.clients
PutBroadcast(s, deadline, advert) ==
    [s EXCEPT
        !.broadcast_queue = @ \cup
            {[id |-> s.next_bid, deadline |-> deadline, aref |-> TRUE,
              item |-> advert]},
        !.next_bid = @ + 1,
        !.is_broadcast_queue_changed = TRUE]

\* a list object leaves the route table: the tuples that hold it keep it
DetachRoutes(s, client) ==
    LET old == s.routes[client]
        fix(e) == IF e.alias /\ e.client = client
                  THEN [e EXCEPT !.alias = FALSE, !.routes = old] ELSE e
    IN [s EXCEPT
          !.send_queue = {fix(e) : e \in @},
          !.inflight = {[b EXCEPT !.accepted = {fix(e) : e \in @}] : b \in @}]

\* an AdvertItem object leaves the client table: the tuples that hold it keep it
DetachAdvert(s, client) ==
    LET old == s.clients[client]
        fix(e) == IF e.aref /\ e.item.client = client
                  THEN [e EXCEPT !.aref = FALSE, !.item = old] ELSE e
    IN [s EXCEPT !.broadcast_queue = {fix(e) : e \in @}]

\* a SetItem object leaves the content store: the tuples that hold it keep it
DetachItem(s, label) ==
    LET c == s.content_store[label]
        old == SetItem(c.label, c.data, c.at, c.dst)
        fix(e) == IF e.sref /\ e.item.label = label
                  THEN [e EXCEPT !.sref = FALSE, !.item = old] ELSE e
    IN [s EXCEPT
          !.send_queue = {fix(e) : e \in @},
          !.inflight = {[b EXCEPT !.accepted = {fix(e) : e \in @}] : b \in @}]

\* ---------------------------------------------------------------- routes
\* list.sort(key=score, reverse=True): stable, descending
\* (InsertDesc puts r behind the entries of sorted that score at least r.score)
InsertDesc(sorted, r) ==
    LET k == Cardinality({i \in 1..Len(sorted) : sorted[i].score >= r.score})
    IN SubSeq(sorted, 1, k) \o <<r>> \o SubSeq(sorted, k + 1, Len(sorted))
\* SortDesc without the sort: the list stays in insertion order
SortDesc_Unsorted(seq) == seq

RECURSIVE SortDesc(_)
SortDesc(seq) ==
    IF seq = <<>> THEN <<>>
    ELSE InsertDesc(SortDesc(SubSeq(seq, 1, Len(seq) - 1)), seq[Len(seq)])

\* the for/else of on_advert: overwrite the score of the entry of addr, or
\* append a new entry
UpsertRoute(list, addr, score) ==
    IF \E i \in 1..Len(list) : list[i].addr = addr
    THEN LET i == CHOOSE j \in 1..Len(list) :
                    /\ list[j].addr = addr
                    /\ \A k \in 1..(j - 1) : list[k].addr # addr
         IN [list EXCEPT ![i].score = score]
    ELSE Append(list, [addr |-> addr, score |-> score])

\* on_peer.on_timeout's inner loop: delete the first entry of addr
RemoveRoute(list, addr) ==
    IF \E i \in 1..Len(list) : list[i].addr = addr
    THEN LET i == CHOOSE j \in 1..Len(list) :
                    /\ list[j].addr = addr
                    /\ \A k \in 1..(j - 1) : list[k].addr # addr
         IN SubSeq(list, 1, i - 1) \o SubSeq(list, i + 1, Len(list))
    ELSE list

\* ------------------------------------------------------------- handlers
\* a run of put_nowait calls, one per element of reqs
RECURSIVE PutSendAll(_, _)
PutSendAll(s, reqs) ==
    IF reqs = <<>> THEN s
    ELSE PutSendAll(
            PutSend(s, reqs[1].deadline, reqs[1].client, reqs[1].item, FALSE),
            Tail(reqs))

\* CancelPeerTimer without the cancel: the old timer stays pending
CancelPeerTimer_Keep(s, addr) == s.timers

\* self.peers[addr].timer.cancel() of on_peer
CancelPeerTimer(s, addr) ==
    IF addr \in DOMAIN s.peers
    THEN s.timers \ {Timer("peer", <<addr, None>>, s.peers[addr].eol)}
    ELSE s.timers

\* Node.on_peer
OnPeer(s, addr, peer) ==
    [s EXCEPT
        !.peers = Put(@, addr, [eol |-> peer.eol]),
        !.timers = CancelPeerTimer(s, addr)
                     \cup {Timer("peer", <<addr, None>>, peer.eol)}]

\* on_peer.on_timeout, the callback of a peer timer
PeerOnTimeout(s, addr) ==
    IF addr \notin DOMAIN s.peers THEN s
    ELSE [s EXCEPT
            !.peers = Del(@, addr),
            !.routes = [c \in DOMAIN @ |-> RemoveRoute(@[c], addr)]]

\* EnsurePeer without the synthesized peer
EnsurePeer_Skip(s, addr, advert) == s

\* the head of on_advert: an advert from an unknown peer makes it a peer
\* that lives until the advert's eol
EnsurePeer(s, addr, advert) ==
    IF addr \notin DOMAIN s.peers
    THEN OnPeer(s, addr, PeerItem(advert.eol)) ELSE s

\* NewLabelGets without previous_labels: every listed label counts as new
RECURSIVE NewLabelGets_Every(_, _, _, _)
NewLabelGets_Every(s, advert, previous_labels, i) ==
    IF i > Len(advert.labels) THEN <<>>
    ELSE LET label == advert.labels[i]
             here ==
                IF label \in DOMAIN s.interests
                THEN LET b == s.interests[label]
                         cs == SetToSeq(DOMAIN b)
                     IN [k \in 1..Len(cs) |->
                            [deadline |-> now + b[cs[k]].ttp,
                             client |-> advert.client,
                             item |-> b[cs[k]]]]
                ELSE <<>>
         IN here \o NewLabelGets_Every(s, advert, previous_labels, i + 1)

\* the queue requests of on_advert's interest propagation: one per label of
\* the advert that was not listed before and per interest in that label
RECURSIVE NewLabelGets(_, _, _, _)
NewLabelGets(s, advert, previous_labels, i) ==
    IF i > Len(advert.labels) THEN <<>>
    ELSE LET label == advert.labels[i]
             here ==
                IF label \notin previous_labels /\ label \in DOMAIN s.interests
                THEN LET b == s.interests[label]
                         cs == SetToSeq(DOMAIN b)
                     IN [k \in 1..Len(cs) |->
                            [deadline |-> now + b[cs[k]].ttp,
                             client |-> advert.client,
                             item |-> b[cs[k]]]]
                ELSE <<>>
         IN here \o NewLabelGets(s, advert, previous_labels, i + 1)

\* OldAdvert with < for <=: an advert with the stored eol is accepted
OldAdvert_Strict(s, advert) ==
    /\ advert.client \in DOMAIN s.clients
    /\ advert.eol < s.clients[advert.client].eol

\* the eol test of on_advert: the advert is no newer than the stored one
OldAdvert(s, advert) ==
    /\ advert.client \in DOMAIN s.clients
    /\ advert.eol <= s.clients[advert.client].eol

\* self.clients[advert.client].timer.cancel() of on_advert
CancelClientTimer(s, c) ==
    IF c \in DOMAIN s.clients
    THEN s.timers \ {Timer("client", <<c, None>>, s.clients[c].eol)}
    ELSE s.timers

\* Node.on_advert
OnAdvert(s, addr, advert) ==
    LET s1 == EnsurePeer(s, addr, advert)
    IN
    IF OwnClient(s1) # None /\ OwnClient(s1) = advert.client THEN s1
    ELSE
    LET c == advert.client
        list == IF c \in DOMAIN s1.routes THEN s1.routes[c] ELSE <<>>
        s2 == [s1 EXCEPT
                 !.routes = Put(@, c, SortDesc(UpsertRoute(list, addr, advert.score)))]
    IN
    IF OldAdvert(s2, advert) THEN s2
    ELSE
    LET had == c \in DOMAIN s2.clients
        previous_labels == IF had THEN Range(s2.clients[c].labels) ELSE {}
        s3 == IF had THEN DetachAdvert(s2, c) ELSE s2
        timers == CancelClientTimer(s3, c)
        s4 == [s3 EXCEPT
                 !.clients = Put(@, c, advert),
                 !.timers = timers \cup {Timer("client", <<c, None>>, advert.eol)}]
        s5 == PutSendAll(s4, NewLabelGets(s4, advert, previous_labels, 1))
    IN PutBroadcast(s5, now + advert.ttp, advert)

\* ClientOnTimeout without `del self.routes[advert.client]`
ClientOnTimeout_KeepRoutes(s, c) ==
    IF c \notin DOMAIN s.clients THEN s
    ELSE [DetachAdvert(s, c) EXCEPT !.clients = Del(@, c)]

\* on_advert.on_timeout, the callback of a client timer
ClientOnTimeout(s, c) ==
    IF c \notin DOMAIN s.clients THEN s
    ELSE LET s1 == DetachAdvert(s, c)
             s2 == IF c \in DOMAIN s1.routes THEN DetachRoutes(s1, c) ELSE s1
         IN [s2 EXCEPT !.clients = Del(@, c), !.routes = Del(@, c)]

\* OldInterest with < for <=: a get with the stored eol is accepted
OldInterest_Strict(s, g) ==
    /\ g.label \in DOMAIN s.interests
    /\ g.client \in DOMAIN s.interests[g.label]
    /\ g.eol < s.interests[g.label][g.client].eol

\* the eol test of on_get: the interest is no newer than the stored one
OldInterest(s, g) ==
    /\ g.label \in DOMAIN s.interests
    /\ g.client \in DOMAIN s.interests[g.label]
    /\ g.eol <= s.interests[g.label][g.client].eol

\* PublisherGets without the loop: no get goes toward a publisher
PublisherGets_None(s, g) == <<>>

\* PublisherGets without the test of the labels: a get toward every known
\* client
PublisherGets_All(s, g) ==
    LET cs == SetToSeq(DOMAIN s.clients \ {OwnClient(s)})
    IN [k \in 1..Len(cs) |->
            [deadline |-> now + g.ttp, client |-> cs[k], item |-> g]]

\* the queue requests of on_get toward the known publishers of g.label
PublisherGets(s, g) ==
    LET pubs == {c \in DOMAIN s.clients :
                    /\ g.label \in Range(s.clients[c].labels)
                    /\ c # OwnClient(s)}
        cs == SetToSeq(pubs)
    IN [k \in 1..Len(cs) |->
            [deadline |-> now + g.ttp, client |-> cs[k], item |-> g]]

\* CancelInterestTimer without the cancel: the old timer stays pending
CancelInterestTimer_Keep(s, g) == s.timers

\* self.interests[g.label][g.client].timer.cancel() of on_get
CancelInterestTimer(s, g) ==
    IF g.label \in DOMAIN s.interests /\ g.client \in DOMAIN s.interests[g.label]
    THEN s.timers \ {Timer("interest", <<g.label, g.client>>,
                           s.interests[g.label][g.client].eol)}
    ELSE s.timers

\* Node.on_get
OnGet(s, g) ==
    IF OldInterest(s, g) THEN s
    ELSE
    LET had == g.label \in DOMAIN s.interests
                 /\ g.client \in DOMAIN s.interests[g.label]
        bucket == IF g.label \in DOMAIN s.interests
                  THEN s.interests[g.label] ELSE EmptyMap
        timers == CancelInterestTimer(s, g)
        s1 == [s EXCEPT
                 !.interests = Put(@, g.label, Put(bucket, g.client, g)),
                 !.timers = timers
                     \cup {Timer("interest", <<g.label, g.client>>, g.eol)}]
        s2 == PutSendAll(s1, PublisherGets(s1, g))
        s3 == IF ~s2.is_main THEN PutSend(s2, now + g.ttp, None, g, FALSE)
              ELSE s2
    IN
    IF g.label \in DOMAIN s3.content_store
         /\ s3.content_store[g.label].at > g.after
    THEN LET s4 == [s3 EXCEPT
                      !.content_store[g.label].dst = <<(<<g.ttp, g.client>>)>>]
             c == s4.content_store[g.label]
         IN PutSend(s4, now + g.ttp, g.client,
                    SetItem(c.label, c.data, c.at, c.dst), TRUE)
    ELSE s3

\* on_get.on_timeout, the callback of an interest timer
InterestOnTimeout(s, label, client) ==
    IF label \notin DOMAIN s.interests
         \/ client \notin DOMAIN s.interests[label] THEN s
    ELSE LET b == Del(s.interests[label], client)
         IN [s EXCEPT
               !.interests = IF DOMAIN b = {} THEN Del(@, label)
                             ELSE Put(@, label, b)]

\* OldSet with > for >=: a publication with the stored at is accepted
OldSet_Strict(s, it) ==
    /\ it.label \in DOMAIN s.content_store
    /\ s.content_store[it.label].at > it.at

\* the at test of on_set: the publication is no newer than the stored one
OldSet(s, it) ==
    /\ it.label \in DOMAIN s.content_store
    /\ s.content_store[it.label].at >= it.at

\* DstSets without the own-client test: a clone toward every pair of dst
RECURSIVE DstSets_Self(_, _, _)
DstSets_Self(s, it, i) ==
    IF i > Len(it.dst) THEN <<>>
    ELSE <<[deadline |-> now + it.dst[i][1], client |-> it.dst[i][2],
            item |-> SetItem(it.label, it.data, it.at, <<it.dst[i]>>)]>>
         \o DstSets_Self(s, it, i + 1)

\* the queue requests of on_set: one per (ttp, client) of dst, own client
\* excluded
RECURSIVE DstSets(_, _, _)
DstSets(s, it, i) ==
    IF i > Len(it.dst) THEN <<>>
    ELSE LET ttp == it.dst[i][1]
             client == it.dst[i][2]
             here == IF OwnClient(s) = None \/ OwnClient(s) # client
                     THEN <<[deadline |-> now + ttp, client |-> client,
                             item |-> SetItem(it.label, it.data, it.at,
                                              <<(<<ttp, client>>)>>)]>>
                     ELSE <<>>
         IN here \o DstSets(s, it, i + 1)

\* OnSet without fulfil.set_result(True): no waiter is woken
OnSet_NoSignal(s, it) ==
    IF OldSet(s, it) THEN s
    ELSE
    LET had == it.label \in DOMAIN s.content_store
        lastv == IF had THEN s.content_store[it.label].last ELSE 0
        s0 == IF had THEN DetachItem(s, it.label) ELSE s
        s1 == [s0 EXCEPT
                 !.content_store = Put(@, it.label,
                     [label |-> it.label, data |-> it.data, at |-> it.at,
                      dst |-> it.dst, last |-> lastv, fulfil |-> None])]
    IN PutSendAll(s1, DstSets(s1, it, 1))

\* Node.on_set.  The handle of the replaced entry is None, pending (awaited
\* by the gets that wait) or cancelled (a get that awaited it was cancelled:
\* Task.cancel cancels the future the task awaits).  set_result on a
\* cancelled future raises asyncio.InvalidStateError, which ends on_set after
\* the entry was stored and before anything is queued; the caller
\* (on_message for a message of this one item, or set) ends with it.
OnSet(s, it) ==
    IF OldSet(s, it) THEN s
    ELSE
    LET had == it.label \in DOMAIN s.content_store
        lastv == IF had THEN s.content_store[it.label].last ELSE 0
        fulfil == IF had THEN s.content_store[it.label].fulfil ELSE None
        s0 == IF had THEN DetachItem(s, it.label) ELSE s
        s1 == [s0 EXCEPT
                 !.content_store = Put(@, it.label,
                     [label |-> it.label, data |-> it.data, at |-> it.at,
                      dst |-> it.dst, last |-> lastv, fulfil |-> None]),
                 !.waiters = IF fulfil = "pending"
                             THEN {IF w.label = it.label /\ w.state = "waiting"
                                   THEN [w EXCEPT !.state = "woken"] ELSE w
                                   : w \in @}
                             ELSE @]
    IN IF fulfil = "cancelled" THEN s1
       ELSE PutSendAll(s1, DstSets(s1, it, 1))

\* ------------------------------------------------------------- batching
MinDeadline(q) == CHOOSE d \in {e.deadline : e \in q} :
                      \A e \in q : d <= e.deadline

\* Node.schedule_batch_send: the flush timer is due at the midpoint between
\* now and the earliest deadline; eol2 is twice that time
ScheduleBatchSend(s) ==
    [s EXCEPT !.batch_send_task =
        IF s.send_queue = {} THEN {}
        ELSE {[eol2 |-> MinDeadline(s.send_queue) + now]}]

\* Node.schedule_batch_broadcast
ScheduleBatchBroadcast(s) ==
    [s EXCEPT !.batch_broadcast_task =
        IF s.broadcast_queue = {} THEN {}
        ELSE {[eol2 |-> MinDeadline(s.broadcast_queue) + now]}]

\* the address of the host's main node, ("127.0.0.1", self.dport)
MainAddr == "main"

\* NextHop with routes[0] evaluated on every node, main or not
NextHop_Routes(s, e) ==
    IF Resolve(s, e) = <<>> THEN None ELSE Resolve(s, e)[1].addr

\* batch_send's choice of peer for one tuple; None stands for the IndexError
\* of routes[0] on an empty list
NextHop(s, e) ==
    IF s.is_main
    THEN IF Resolve(s, e) = <<>> THEN None ELSE Resolve(s, e)[1].addr
    ELSE MainAddr

\* NoRoute without the look at self.routes: the tuple keeps its own list
NoRoute_Keep(s, e) == [e EXCEPT !.deadline = @ + DEADLINE_EXT]

\* batch_send's except IndexError branch: the tuple goes back DEADLINE_EXT
\* later, with the route table's list when the client has one
NoRoute(s, e) ==
    [e EXCEPT !.deadline = @ + DEADLINE_EXT,
              !.alias = e.client \in DOMAIN s.routes,
              !.routes = IF e.client \in DOMAIN s.routes THEN <<>> ELSE Resolve(s, e)]

\* the items of a batch in the order they were popped (ties by entry)
RECURSIVE PopOrder(_)
PopOrder(q) ==
    IF q = {} THEN <<>>
    ELSE LET e == CHOOSE x \in q :
                    \A y \in q : x.deadline < y.deadline
                                 \/ (x.deadline = y.deadline /\ x.id <= y.id)
         IN <<e>> \o PopOrder(q \ {e})

\* BatchSendBegin without the comparison of peer and addr: every tuple that
\* has a peer goes into the batch
BatchSendBegin_All(s, first) ==
    LET q == s.send_queue
        accepted == {e \in q : NextHop(s, e) # None}
        order == PopOrder(accepted)
    IN [s EXCEPT
          !.send_queue = {NoRoute(s, e) : e \in q \ accepted},
          !.batch_send_task = {},
          !.inflight = @ \cup
              {[addr |-> NextHop(s, first), accepted |-> accepted,
                items |-> [k \in 1..Len(order) |-> ItemOf(s, order[k])]]}]

\* Node.batch_send up to `await self.send_msg(...)`; first is the first tuple
\* popped that has a peer.  Without such a tuple nothing is sent and the
\* method runs to its end.
BatchSendBegin(s, first) ==
    LET q == s.send_queue
        addr == NextHop(s, first)
        accepted == {e \in q : NextHop(s, e) # None /\ NextHop(s, e) = addr}
        noroute == {e \in q : NextHop(s, e) = None}
        rejects == (q \ (accepted \cup noroute)) \cup {NoRoute(s, e) : e \in noroute}
        order == PopOrder(accepted)
    IN [s EXCEPT
          !.send_queue = rejects,
          !.batch_send_task = {},
          !.inflight = @ \cup
              {[addr |-> addr, accepted |-> accepted,
                items |-> [k \in 1..Len(order) |-> ItemOf(s, order[k])]]}]

\* Node.batch_send when no popped tuple has a peer
BatchSendNoPeer(s) ==
    ScheduleBatchSend(
        [s EXCEPT !.send_queue = {NoRoute(s, e) : e \in @},
                  !.batch_send_task = {}])

\* Requeue with routes for routes[1:]: the tuple keeps the list it had
Requeue_Same(s, e) ==
    [e EXCEPT !.deadline = @ + (IF s.is_main THEN 0 ELSE DEADLINE_EXT)]

\* the tuple batch_send puts back after a failed send
Requeue(s, e) ==
    LET r == Resolve(s, e)
    IN [e EXCEPT !.deadline = @ + (IF s.is_main THEN 0 ELSE DEADLINE_EXT),
                 !.alias = FALSE,
                 !.routes = IF r = <<>> THEN <<>> ELSE Tail(r)]

\* BatchSendEnd without the requeue: the items of a failed send are dropped
BatchSendEnd_NoRequeue(s, b, ok) ==
    ScheduleBatchSend(
        [s EXCEPT !.inflight = @ \ {b},
                  !.sent = IF ok THEN @ \cup {e.id : e \in b.accepted} ELSE @])

\* Node.batch_send from the return of send_msg to its end
BatchSendEnd(s, b, ok) ==
    LET s1 == [s EXCEPT !.inflight = @ \ {b}]
        s2 == IF ok
              THEN [s1 EXCEPT !.sent = @ \cup {e.id : e \in b.accepted}]
              ELSE [s1 EXCEPT !.send_queue = @ \cup {Requeue(s1, e) : e \in b.accepted}]
    IN ScheduleBatchSend(s2)

\* the size limit of one broadcast datagram
BROADCAST_CAPACITY == 512

\* len(Message(items).to_bytes()) for a list of adverts, as encode writes
\* it (json.dumps with separators "," and ":"): {"v":"0.2","i":[]} and, per
\* advert, {"t":"a","c":"..","l":[..],"s":..,"p":..,"e":..}
EmptyMsgLen == 18

\* the decimal digits of a number (the model's numbers are integers)
RECURSIVE NumLen(_)
NumLen(n) ==
    IF n < 0 THEN 1 + NumLen(0 - n)
    ELSE IF n < 10 THEN 1 ELSE 1 + NumLen(n \div 10)

\* the JSON text of the strings of a list, commas included
RECURSIVE StringsLen(_)
StringsLen(strs) ==
    IF strs = <<>> THEN 0
    ELSE Len(strs[1]) + 2 + (IF Len(strs) > 1 THEN 1 ELSE 0)
            + StringsLen(Tail(strs))

AdvertLen(item) ==
    36 + Len(item.client) + 2 + StringsLen(item.labels)
       + NumLen(item.score) + NumLen(item.ttp) + NumLen(item.eol)

RECURSIVE MsgLen(_)
MsgLen(items) ==
    IF items = <<>> THEN EmptyMsgLen
    ELSE AdvertLen(items[1]) + (IF Len(items) > 1 THEN 1 ELSE 0)
            + MsgLen(Tail(items))

\* Refused of a batch_broadcast that takes every item
Refused_Never(items, item) == FALSE

\* batch_broadcast's size test: the first item is always taken, a later one
\* is refused when the message with it reaches BROADCAST_CAPACITY
Refused(items, item) ==
    items # <<>> /\ MsgLen(items \o <<item>>) >= BROADCAST_CAPACITY

\* item.score -= 1 + random.uniform(0, 0.5), on the integer score grid
ScoreDrops == {1, 2}

\* the advert a queued broadcast tuple carries now
AdvertOf(s, e) ==
    IF e.aref /\ e.item.client \in DOMAIN s.clients
    THEN s.clients[e.item.client] ELSE e.item

\* the while loop of batch_broadcast over the tuples in pop order; drop[id]
\* is the random score decrement of tuple id.  A refused tuple goes back
\* with the decrement applied.
RECURSIVE BroadcastLoop(_, _, _, _)
BroadcastLoop(s, order, items, drop) ==
    IF order = <<>> THEN [s |-> s, items |-> items]
    ELSE LET e == order[1]
             item == [AdvertOf(s, e) EXCEPT !.score = @ - drop[e.id]]
             live == e.aref /\ e.item.client \in DOMAIN s.clients
             s1 == IF live
                   THEN [s EXCEPT !.clients[e.item.client] = item]
                   ELSE [s EXCEPT !.broadcast_queue =
                            (@ \ {e}) \cup {[e EXCEPT !.item = item]}]
             e1 == IF live THEN e ELSE [e EXCEPT !.item = item]
         IN IF Refused(items, item)
            THEN [s |-> s1, items |-> items]
            ELSE BroadcastLoop(
                    [s1 EXCEPT !.broadcast_queue = @ \ {e1}],
                    Tail(order), items \o <<item>>, drop)

\* Node.batch_broadcast up to broadcast_msg, and its final
\* schedule_batch_broadcast
BatchBroadcast(s, drop) ==
    LET r == BroadcastLoop([s EXCEPT !.batch_broadcast_task = {}],
                           PopOrder(s.broadcast_queue), <<>>, drop)
    IN [s |-> ScheduleBatchBroadcast(r.s), items |-> r.items]

\* ----------------------------------------------------------- on_message
VERSION == "0.2"

RECURSIVE IndicesOf(_, _, _)
IndicesOf(items, kinds, i) ==
    IF i > Len(items) THEN <<>>
    ELSE (IF items[i].t \in kinds THEN <<i>> ELSE <<>>)
            \o IndicesOf(items, kinds, i + 1)

\* HandleOrder with one loop over the items, in message order
HandleOrder_OneLoop(items) == IndicesOf(items, {"p", "a", "g", "s"}, 1)

\* the order in which on_message's three loops call the handlers, as indices
\* into msg.items
HandleOrder(items) ==
    IndicesOf(items, {"p"}, 1) \o IndicesOf(items, {"a"}, 1)
        \o IndicesOf(items, {"g", "s"}, 1)

\* one handler call of on_message
Handle(s, addr, item) ==
    CASE item.t = "p" -> OnPeer(s, addr, item)
      [] item.t = "a" -> OnAdvert(s, addr, item)
      [] item.t = "g" -> OnGet(s, item)
      [] item.t = "s" -> OnSet(s, item)

RECURSIVE HandleAll(_, _, _, _)
HandleAll(s, addr, items, order) ==
    IF order = <<>> THEN s
    ELSE HandleAll(Handle(s, addr, items[order[1]]), addr, items, Tail(order))

\* the tail of on_message, get and set: reschedule the batches whose queue
\* changed
Reschedule(s) ==
    LET s1 == IF s.is_broadcast_queue_changed
              THEN [ScheduleBatchBroadcast(s) EXCEPT
                        !.is_broadcast_queue_changed = FALSE]
              ELSE s
    IN IF s1.is_send_queue_changed
       THEN [ScheduleBatchSend(s1) EXCEPT !.is_send_queue_changed = FALSE]
       ELSE s1

\* Node.on_message
OnMessage(s, addr, msg) ==
    IF msg.v # VERSION THEN s
    ELSE Reschedule(HandleAll(s, addr, msg.items, HandleOrder(msg.items)))

\* ---------------------------------------------------------------- codec
\* to_dict of the four item classes: the JSON object of an item
ToDict(item) ==
    CASE item.t = "p" -> [t |-> "p", e |-> item.eol]
      [] item.t = "a" -> [t |-> "a", c |-> item.client, l |-> item.labels,
                          s |-> item.score, p |-> item.ttp, e |-> item.eol]
      [] item.t = "g" -> [t |-> "g", c |-> item.client, l |-> item.label,
                          a |-> item.after, p |-> item.ttp, e |-> item.eol]
      [] item.t = "s" -> [t |-> "s", l |-> item.label, d |-> item.data,
                          a |-> item.at, c |-> item.dst]

\* Message.to_dict and encode: the bytes of a message, as the JSON value
\* they hold (json = FALSE stands for bytes that are no JSON text)
ToBytes(msg) ==
    [json |-> TRUE,
     d |-> [v |-> msg.v, i |-> [k \in 1..Len(msg.items) |-> ToDict(msg.items[k])]]]

\* the keys from_dict of each item class reads
KeysOf(kind) ==
    CASE kind = "p" -> {"t", "e"}
      [] kind = "a" -> {"t", "c", "l", "s", "p", "e"}
      [] kind = "g" -> {"t", "c", "l", "a", "p", "e"}
      [] kind = "s" -> {"t", "l", "d", "a", "c"}

\* t_map[item["t"]].from_dict(item) raises KeyError (no "t", unknown "t",
\* a key missing)
ItemDecodes(d) ==
    /\ "t" \in DOMAIN d
    /\ d.t \in {"p", "a", "g", "s"}
    /\ KeysOf(d.t) \subseteq DOMAIN d

\* t_map[item["t"]].from_dict(item) of an object that decodes
FromDict(d) ==
    CASE d.t = "p" -> PeerItem(d.e)
      [] d.t = "a" -> AdvertItem(d.c, d.l, d.s, d.p, d.e)
      [] d.t = "g" -> GetItem(d.c, d.l, d.a, d.p, d.e)
      [] d.t = "s" -> SetItem(d.l, d.d, d.a, d.c)

\* MessageDecodes with every item taken as decodable
MessageDecodes_Lenient(raw) ==
    /\ raw.json
    /\ "v" \in DOMAIN raw.d /\ raw.d.v = VERSION
    /\ "i" \in DOMAIN raw.d

\* Message.from_bytes returns: the bytes are JSON, the version is VERSION
\* and every item decodes
MessageDecodes(raw) ==
    /\ raw.json
    /\ "v" \in DOMAIN raw.d /\ raw.d.v = VERSION
    /\ "i" \in DOMAIN raw.d
    /\ \A k \in 1..Len(raw.d.i) : ItemDecodes(raw.d.i[k])

\* Message.from_bytes of bytes that decode; an item that does not decode
\* is left out (it never is when MessageDecodes holds)
FromBytes(raw) ==
    LET good == SelectSeq(raw.d.i, ItemDecodes)
    IN [v |-> raw.d.v, items |-> [k \in 1..Len(good) |-> FromDict(good[k])]]

\* Node.on_message from the bytes: a message that does not decode is
\* ignored as a whole
OnData(s, addr, raw) ==
    IF MessageDecodes(raw) THEN OnMessage(s, addr, FromBytes(raw)) ELSE s

\* ----------------------------------------------------------- client API
\* InterestDst with a test of eol: interests that are past their eol and
\* still wait for their timer are left out
InterestDst_Live(s, label) ==
    IF label \in DOMAIN s.interests
    THEN LET b == s.interests[label]
             cs == SetToSeq({c \in DOMAIN b : b[c].eol > now})
         IN [k \in 1..Len(cs) |-> <<b[cs[k]].ttp, b[cs[k]].client>>]
    ELSE <<>>

\* the destinations Node.set reads from the interest table
InterestDst(s, label) ==
    IF label \in DOMAIN s.interests
    THEN LET b == s.interests[label]
             cs == SetToSeq(DOMAIN b)
         IN [k \in 1..Len(cs) |-> <<b[cs[k]].ttp, b[cs[k]].client>>]
    ELSE <<>>

\* ApiSet without the test of self.advert
ApiSet_NoCheck(s, label, data) ==
    LET s1 == OnSet(s, SetItem(label, data, now, InterestDst(s, label)))
    IN IF s1.is_send_queue_changed
       THEN [ScheduleBatchSend(s1) EXCEPT !.is_send_queue_changed = FALSE]
       ELSE s1

\* Node.set without a group; a node without a client raises RuntimeError
ApiSet(s, label, data) ==
    IF OwnClient(s) = None THEN s
    ELSE LET s1 == OnSet(s, SetItem(label, data, now, InterestDst(s, label)))
         IN IF s1.is_send_queue_changed
            THEN [ScheduleBatchSend(s1) EXCEPT !.is_send_queue_changed = FALSE]
            ELSE s1

\* the entry Node.get creates for a label the content store does not have:
\* SetItem(label, None, 0, [])
Placeholder(label) ==
    [label |-> label, data |-> None, at |-> 0, dst |-> <<>>,
     last |-> 0, fulfil |-> None]

\* Node.get after `await fulfil`, or at once when the store holds a value
\* newer than the last one returned: last = at, the data is returned
GetReturn(s, label, w) ==
    [s EXCEPT
        !.content_store[label].last = s.content_store[label].at,
        !.timers = {tm \in @ : ~(tm.kind = "subscribe" /\ tm.key = <<label, w.caller>>)},
        !.waiters = (@ \ {w}) \cup
            {[w EXCEPT !.state = "returned",
                       !.data = s.content_store[label].data]}]

\* the caller of a get cancels it (task.cancel(), or asyncio.wait_for timing
\* out) while the get awaits the handle: the future is cancelled, and with
\* it every get that awaits it ends with CancelledError; the subscribe tasks
\* are tasks of their own, and get's task.cancel() is not reached
CancelGet(s, w) ==
    [s EXCEPT
        !.content_store[w.label].fulfil = "cancelled",
        !.waiters = {IF x.label = w.label /\ x.state = "waiting"
                     THEN [x EXCEPT !.state = "cancelled"] ELSE x : x \in @}]

\* Node.get without a group up to `await fulfil`; known tells whether a
\* publisher of the label was known at the call, caller names the call (a
\* coroutine of its own, with its own subscribe task).  A node without a
\* client raises RuntimeError.
ApiGet(s, label, known) ==
    IF OwnClient(s) = None THEN s
    ELSE
    LET s1 == IF label \in DOMAIN s.content_store THEN s
              ELSE [s EXCEPT !.content_store = Put(@, label, Placeholder(label))]
        c == s1.content_store[label]
        w == [label |-> label, state |-> "waiting", after |-> c.last,
              known |-> known, data |-> None,
              caller |-> ToString(Cardinality(s.waiters))]
    IN IF c.at > c.last
       THEN GetReturn([s1 EXCEPT !.waiters = @ \cup {w}], label, w)
       ELSE [s1 EXCEPT
               !.content_store[label].fulfil = "pending",
               !.waiters = @ \cup {w},
               !.timers = @ \cup {Timer("subscribe", <<label, w.caller>>, now)}]

\* one iteration of get's subscribe() loop: on_get of the own interest,
\* the reschedule, and the sleep of ttl / tpf
Subscribe(s, tm, w, ttl, tpf, ttp) ==
    LET s1 == OnGet(s, GetItem(OwnClient(s), w.label, w.after, ttp, now + ttl))
        s2 == IF s1.is_send_queue_changed
              THEN [ScheduleBatchSend(s1) EXCEPT !.is_send_queue_changed = FALSE]
              ELSE s1
    IN [s2 EXCEPT !.timers = (@ \ {tm})
            \cup {Timer("subscribe", <<w.label, w.caller>>, now + (ttl \div tpf))}]

\* HeartbeatItems without the advert: a client broadcasts its peer item only
HeartbeatItems_Peer(s, ttl) == <<PeerItem(now + ttl)>>

\* one iteration of start's do_regular_broadcasts(): the items it broadcasts
HeartbeatItems(s, ttl) ==
    <<PeerItem(now + ttl)>> \o
        (IF OwnClient(s) = None THEN <<>>
         ELSE <<AdvertItem(s.advert.client, s.advert.labels, s.advert.score,
                           s.advert.ttp, now + ttl)>>)

\* --------------------------------------------------------------- groups
\* the one group of the model and the label group + "/" + client under
\* which a client publishes its invites
GroupName == "g"
InviteLabel(client) == GroupName \o "/" \o client

\* Group.raw before any key was obtained (None, sent as b""), and the key
\* Fernet.generate_key() returns: a fresh value, named by who drew it when
NoKey == [by |-> None, at |-> 0]
FreshKey(s) == [by |-> OwnClient(s), at |-> now]

\* Group(): keys holds the clients whose public key join was given
NewGroup == [keys |-> {}, raw |-> NoKey, at |-> 0]

\* a record with more fields
Extend(rec, more) ==
    [k \in DOMAIN rec \cup DOMAIN more |->
        IF k \in DOMAIN more THEN more[k] ELSE rec[k]]

\* a client node with self.groups, the position of its handle_invite
\* coroutine (join.pc: "none" before join, "get" about to call get, "await"
\* inside get, "publish" after the break) and the time it read last
ClientNode(name) ==
    Extend(NewNode(TRUE, OwnAdvert(name, <<>>, 1)),
           [groups |-> EmptyMap, join |-> [pc |-> "none", peer |-> None],
            clk |-> 0])

\* the text of a small number
Digit(n) == <<"0", "1", "2", "3", "4", "5", "6", "7", "8", "9">>[n + 1]

\* encode, sign and base64 of publish_invites: the published string of an
\* invite {"d": {"at": .., "invites": {client: wrapped key}}, "s": signature},
\* here signer|at|client=key;... with a key written as its name
RECURSIVE EncodeInvites(_, _)
EncodeInvites(invites, clients) ==
    IF clients = <<>> THEN ""
    ELSE clients[1] \o "=" \o invites[clients[1]].by \o "@"
            \o Digit(invites[clients[1]].at) \o ";"
            \o EncodeInvites(invites, Tail(clients))

EncodeInvite(outer) ==
    outer.s \o "|" \o Digit(outer.d.at) \o "|"
        \o EncodeInvites(outer.d.invites, SetToSeq(DOMAIN outer.d.invites))

\* the invites that can be on the wire: signed by a client or by a
\* stranger, for one client, with no key or with a key and its time
InviteUniverse ==
    {[d |-> [at |-> a, invites |-> [c \in {l} |-> [by |-> b, at |-> a]]],
      s |-> sg] :
        sg \in {"X", "Y", "Z"}, a \in 0..9, l \in {"X", "Y", "W"},
        b \in {None, "X", "Y", "Z"}}

InviteTable ==
    [data \in {EncodeInvite(outer) : outer \in InviteUniverse} |->
        CHOOSE outer \in InviteUniverse : EncodeInvite(outer) = data]

\* decode and base64.b64decode of handle_invite: the invite of a string
DecodeInvite(data) == InviteTable[data]

\* join.publish_invites: the group key wrapped for every client of keys,
\* with the key time, signed with the own private key (s names the signer)
PublishInvites(s) ==
    LET g == s.groups[GroupName]
        inner == [at |-> g.at, invites |-> [c \in g.keys |-> g.raw]]
    IN ApiSet(s, InviteLabel(OwnClient(s)),
              EncodeInvite([d |-> inner, s |-> OwnClient(s)]))

\* Node.join up to its first `await self.get`
JoinBegin(s, client) ==
    LET s1 == IF GroupName \in DOMAIN s.groups THEN s
              ELSE [s EXCEPT
                      !.advert.labels = Append(@, InviteLabel(OwnClient(s))),
                      !.groups = Put(@, GroupName, NewGroup)]
        s2 == [s1 EXCEPT !.groups[GroupName].keys = @ \cup {client}]
    IN PublishInvites(s2)

\* Verify that takes every signature for the client's
Verify_Any(client, outer) == TRUE

\* verify(key, sig, data) with the public key of client: the signature is
\* the client's
Verify(client, outer) == outer.s = client

\* what handle_invite makes of the invite get returned
InviteVerdict(s, client, outer) ==
    LET g == s.groups[GroupName]
        inner == outer.d
    IN IF ~Verify(client, outer) THEN "bad_signature"
       ELSE IF inner.at = 0 /\ g.at = 0 THEN "minted"
       ELSE IF inner.at = 0 \/ inner.at <= g.at THEN "older"
       ELSE IF OwnClient(s) \notin DOMAIN inner.invites THEN "unlisted"
       ELSE "adopted"

\* one round of handle_invite's loop after get returned data: a new key
\* (break, publish_invites comes next) or the next get (continue)
HandleInvite(s, client, data) ==
    LET outer == DecodeInvite(data)
        v == InviteVerdict(s, client, outer)
    IN CASE v = "minted" ->
              [s EXCEPT !.groups[GroupName].raw = FreshKey(s),
                        !.groups[GroupName].at = now,
                        !.clk = now,
                        !.join.pc = "publish"]
         [] v = "adopted" ->
              [s EXCEPT !.groups[GroupName].raw = outer.d.invites[OwnClient(s)],
                        !.groups[GroupName].at = outer.d.at,
                        !.join.pc = "publish"]
         [] OTHER -> [s EXCEPT !.join.pc = "get"]

\* ------------------------------------------------------------ environment
\* what the network and the host can hand to a node
Addrs == {"P1", "P2"}
Me == "me"
Labels == {"t"}
Datas == {"x", "y"}
Scores == {MAX_SCORE - 2, MAX_SCORE - 1}
Eols == 1..MaxEol

PeerItems == {PeerItem(e) : e \in Eols}
AdvertItems(clients, labelss) ==
    {AdvertItem(c, l, sc, 1, e) :
        c \in clients, l \in labelss, sc \in Scores, e \in Eols}
GetItems(clients, afters) ==
    {GetItem(c, l, a, 1, e) :
        c \in clients, l \in Labels, a \in afters, e \in Eols}
SetItems(dsts) ==
    {SetItem(l, d, a, dst) : l \in Labels, d \in Datas, a \in Eols, dst \in dsts}

\* a message of one item
Single(items) == {[v |-> VERSION, items |-> <<i>>] : i \in items}

\* --------------------------------------------------------------- actions
\* what `last` records of a step: the operation, the address, client or label
\* it is about, and how its first test went
Op(op, key, tag) ==
    [op |-> op, key |-> key, tag |-> tag, kinds |-> <<>>, order |-> <<>>]

\* what `last` records of a message of several items: the kinds of its items
\* and the order in which they were handled (indices into the message)
OpMsg(addr, items, order) ==
    [op |-> "msg", key |-> addr, tag |-> "items",
     kinds |-> [i \in 1..Len(items) |-> items[i].t], order |-> order]

\* how the handler of a received item starts: with the test that ignores it
\* ("old", "self") or past it ("new")
TagOf(s, addr, item) ==
    CASE item.t = "p" -> IF addr \in DOMAIN s.peers THEN "refresh" ELSE "new"
      [] item.t = "a" ->
            IF OwnClient(s) # None /\ OwnClient(s) = item.client THEN "self"
            ELSE IF OldAdvert(s, item) THEN "old" ELSE "new"
      [] item.t = "g" -> IF OldInterest(s, item) THEN "old" ELSE "new"
      [] item.t = "s" -> IF OldSet(s, item) THEN "old" ELSE "new"

Step(n, s, op) ==
    /\ s.next_id <= MaxIds
    /\ s.next_bid <= MaxAdverts
    /\ nodes' = [nodes EXCEPT ![n] = s]
    /\ last' = op
    /\ UNCHANGED <<now, net>>

\* on_datagram / on_connection hand a message from addr to on_message
Receive(n, addr, msg) ==
    Step(n, OnMessage(nodes[n], addr, msg),
         IF Len(msg.items) = 1
         THEN Op(msg.items[1].t, addr, TagOf(nodes[n], addr, msg.items[1]))
         ELSE OpMsg(addr, msg.items, HandleOrder(msg.items)))

\* on_datagram / on_connection hand the bytes received from addr to
\* on_message; `last` keeps how the bytes left their sender ("intact", or
\* "damaged") and the discriminators of the items on the wire
ReceiveData(n, addr, raw, how) ==
    Step(n, OnData(nodes[n], addr, raw),
         [Op("data", addr, how) EXCEPT
            !.kinds = IF raw.json /\ "i" \in DOMAIN raw.d
                      THEN [k \in 1..Len(raw.d.i) |->
                              IF "t" \in DOMAIN raw.d.i[k] THEN raw.d.i[k].t ELSE "?"]
                      ELSE <<>>,
            !.order = IF raw.json /\ "v" \in DOMAIN raw.d THEN <<raw.d.v>> ELSE <<>>])

\* a peer timer set by on_peer fires
PeerTimerFires(n, tm) ==
    /\ tm \in nodes[n].timers /\ tm.kind = "peer" /\ now >= tm.eol
    /\ Step(n, [PeerOnTimeout(nodes[n], tm.key[1]) EXCEPT !.timers = @ \ {tm}],
            Op("peer_timeout", tm.key[1], "fired"))

\* a client timer set by on_advert fires
ClientTimerFires(n, tm) ==
    /\ tm \in nodes[n].timers /\ tm.kind = "client" /\ now >= tm.eol
    /\ Step(n, [ClientOnTimeout(nodes[n], tm.key[1]) EXCEPT !.timers = @ \ {tm}],
            Op("client_timeout", tm.key[1], "fired"))

\* an interest timer set by on_get fires
InterestTimerFires(n, tm) ==
    /\ tm \in nodes[n].timers /\ tm.kind = "interest" /\ now >= tm.eol
    /\ Step(n, [InterestOnTimeout(nodes[n], tm.key[1], tm.key[2])
                    EXCEPT !.timers = @ \ {tm}],
            Op("interest_timeout", tm.key[2], "fired"))

\* the send-batch timer fires and batch_send runs to its first await
BatchSendStarts(n) ==
    LET s == nodes[n]
        routable == {e \in s.send_queue : NextHop(s, e) # None}
    IN /\ \E tm \in s.batch_send_task : 2 * now >= tm.eol2
       /\ \/ /\ routable = {}
             /\ Step(n, BatchSendNoPeer(s), Op("batch_send", None, "nopeer"))
          \/ \E first \in routable :
                /\ first.deadline = MinDeadline(routable)
                /\ Step(n, BatchSendBegin(s, first),
                        Op("batch_send", NextHop(s, first), "sending"))

\* send_msg returns (ok) or raises asyncio.TimeoutError / OSError
BatchSendReturns(n, b, ok) ==
    /\ b \in nodes[n].inflight
    /\ Step(n, BatchSendEnd(nodes[n], b, ok),
            Op("send_msg", b.addr, IF ok THEN "ok" ELSE "failed"))

\* the application calls set(label, data)
CallSet(n, label, data) ==
    Step(n, ApiSet(nodes[n], label, data),
         Op("set", label,
            IF OwnClient(nodes[n]) = None THEN "error"
            ELSE IF OldSet(nodes[n], SetItem(label, data, now, <<>>))
                 THEN "old" ELSE "new"))

\* time passes
Tick ==
    /\ now < MaxTime
    /\ now' = now + 1
    /\ last' = Op("tick", None, "tick")
    /\ UNCHANGED <<nodes, net>>

Timers(n) == nodes[n].timers

\* a step of node n in a network: net2 is the wire afterwards
NetStep(n, s, op, net2) ==
    /\ nodes' = [nodes EXCEPT ![n] = s]
    /\ last' = op
    /\ net' = net2
    /\ UNCHANGED now

\* broadcast_msg: one datagram to every other node
Broadcasts(n, items) ==
    {[src |-> n, dst |-> m, items |-> items] : m \in DOMAIN nodes \ {n}}

\* the parameters the nodes of a network start with and call get with
Ttl == 4
Tpf == 2
Ttp == 1

\* do_regular_broadcasts wakes up, broadcasts and sleeps ttl / tpf
Heartbeat(n, tm) ==
    /\ tm.kind = "heartbeat" /\ now >= tm.eol
    /\ NetStep(n,
           [nodes[n] EXCEPT !.timers = (@ \ {tm})
                \cup {Timer("heartbeat", <<None, None>>, now + (Ttl \div Tpf))}],
           Op("heartbeat", n, "sent"),
           net \cup Broadcasts(n, HeartbeatItems(nodes[n], Ttl)))

\* on_datagram / on_connection hand a message from the wire to on_message
Deliver(m) ==
    /\ m \in net
    /\ NetStep(m.dst,
           OnMessage(nodes[m.dst], m.src, [v |-> VERSION, items |-> m.items]),
           Op("deliver", m.src, m.items[1].t),
           net \ {m})

\* what batch_send does when its timer fires
BatchSendOutcomes(s) ==
    LET routable == {e \in s.send_queue : NextHop(s, e) # None}
    IN IF routable = {}
       THEN {[s |-> BatchSendNoPeer(s), op |-> Op("batch_send", None, "nopeer")]}
       ELSE {[s |-> BatchSendBegin(s, first),
              op |-> Op("batch_send", NextHop(s, first), "sending")]
                : first \in {e \in routable : e.deadline = MinDeadline(routable)}}

\* the send-batch timer fires on a node of a network
NetBatchSendStarts(n) ==
    /\ \E tm \in nodes[n].batch_send_task : 2 * now >= tm.eol2
    /\ \E o \in BatchSendOutcomes(nodes[n]) : NetStep(n, o.s, o.op, net)

\* send_msg has written the message to the peer and returns
NetSendReturns(n, b) ==
    /\ b \in nodes[n].inflight
    /\ NetStep(n, BatchSendEnd(nodes[n], b, TRUE),
               Op("send_msg", b.addr, "ok"),
               net \cup {[src |-> n, dst |-> b.addr, items |-> b.items]})

\* the broadcast-batch timer fires: batch_broadcast
NetBatchBroadcast(n) ==
    /\ \E tm \in nodes[n].batch_broadcast_task : 2 * now >= tm.eol2
    /\ \E drop \in [{e.id : e \in nodes[n].broadcast_queue} -> ScoreDrops] :
          LET r == BatchBroadcast(nodes[n], drop)
          IN NetStep(n, r.s, Op("batch_broadcast", n, "sent"),
                     net \cup Broadcasts(n, r.items))

\* the application calls get(label, Ttl, Tpf, Ttp)
CallGet(n, label) ==
    LET s == nodes[n]
        known == \E c \in DOMAIN s.clients : label \in Range(s.clients[c].labels)
    IN NetStep(n, ApiGet(s, label, known), Op("get", label, "called"), net)

\* get's subscribe task runs one iteration
SubscribeRuns(n, tm) ==
    /\ tm.kind = "subscribe" /\ now >= tm.eol
    /\ \E w \in nodes[n].waiters :
          /\ w.label = tm.key[1] /\ w.caller = tm.key[2] /\ w.state # "returned"
          /\ NetStep(n, Subscribe(nodes[n], tm, w, Ttl, Tpf, Ttp),
                     Op("subscribe", w.label, "sent"), net)

\* a get whose future was resolved by on_set resumes and returns
GetResumes(n, w) ==
    /\ w \in nodes[n].waiters /\ w.state = "woken"
    /\ NetStep(n, GetReturn(nodes[n], w.label, w),
               Op("get", w.label, "returned"), net)

\* the application calls set(label, data) on a node of a network
NetCallSet(n, label, data) ==
    NetStep(n, ApiSet(nodes[n], label, data), Op("set", label, "called"), net)

\* an interest timer fires on a node of a network
NetInterestTimerFires(n, tm) ==
    /\ tm.kind = "interest" /\ now >= tm.eol
    /\ NetStep(n,
           [InterestOnTimeout(nodes[n], tm.key[1], tm.key[2])
               EXCEPT !.timers = @ \ {tm}],
           Op("interest_timeout", tm.key[2], "fired"), net)

\* something on node n is due now: a timer, a batch, the return of a send,
\* a get that was woken
Due(n) ==
    LET s == nodes[n]
    IN \/ \E tm \in s.timers : now >= tm.eol
       \/ \E tm \in s.batch_send_task \cup s.batch_broadcast_task :
             2 * now >= tm.eol2
       \/ s.inflight # {}
       \/ \E w \in s.waiters : w.state = "woken"

\* time passes in a network once every message is delivered and nothing is due
NetTick ==
    /\ now < MaxNetTime
    /\ net = {}
    /\ \A n \in DOMAIN nodes : ~Due(n)
    /\ now' = now + 1
    /\ last' = Op("tick", None, "tick")
    /\ UNCHANGED <<nodes, net>>

\* a step of a client node in a group
JoinStep(n, s, op) ==
    /\ nodes' = [nodes EXCEPT ![n] = s]
    /\ last' = op
    /\ UNCHANGED <<now, net>>

\* the application calls join(GroupName, client, key of client, ...); two
\* readings of the clock by one node differ
JoinCalls(n, client) ==
    /\ nodes[n].join.pc = "none"
    /\ now <= JoinBy /\ now > nodes[n].clk
    /\ JoinStep(n, [JoinBegin(nodes[n], client) EXCEPT
                      !.join = [pc |-> "get", peer |-> client], !.clk = now],
                Op("join", n, "called"))

\* the value get returns to handle_invite is taken (the waiter is done)
Returned(s, label) == [s EXCEPT !.waiters = {w \in @ : w.label # label}]

\* what handle_invite will make of the invite the content store holds
PendingVerdict(n) ==
    LET s == nodes[n]
    IN InviteVerdict(s, s.join.peer,
                     DecodeInvite(s.content_store[InviteLabel(s.join.peer)].data))

\* get finds a value it has not returned yet
Unreturned(n) ==
    LET s == nodes[n]
        label == InviteLabel(s.join.peer)
    IN /\ label \in DOMAIN s.content_store
       /\ s.content_store[label].at > s.content_store[label].last

\* handle_invite can call get (a key is minted at a new reading of the clock)
CanGet(n) ==
    /\ nodes[n].join.pc = "get"
    /\ (Unreturned(n) /\ PendingVerdict(n) = "minted") => now > nodes[n].clk

\* handle_invite calls get for the invites of its peer; a value not yet
\* returned is returned at once and handled
GetInvite(n) ==
    LET s == nodes[n]
        label == InviteLabel(s.join.peer)
        s1 == ApiGet(s, label, FALSE)
    IN /\ CanGet(n)
       /\ IF Unreturned(n)
          THEN JoinStep(n, HandleInvite(Returned(s1, label), s.join.peer,
                                        s.content_store[label].data),
                        Op("invite", n, PendingVerdict(n)))
          ELSE JoinStep(n, [s1 EXCEPT !.join.pc = "await"], Op("get", n, "waiting"))

\* on_set has resolved the future the get of handle_invite awaits
CanReturn(n) ==
    /\ nodes[n].join.pc = "await"
    /\ \E w \in nodes[n].waiters :
          w.label = InviteLabel(nodes[n].join.peer) /\ w.state = "woken"
    /\ PendingVerdict(n) = "minted" => now > nodes[n].clk

\* the get of handle_invite resumes with the value on_set stored
InviteReturns(n) ==
    LET s == nodes[n]
        label == InviteLabel(s.join.peer)
    IN /\ CanReturn(n)
       /\ \E w \in s.waiters :
             /\ w.label = label /\ w.state = "woken"
             /\ JoinStep(n, HandleInvite(Returned(GetReturn(s, label, w), label),
                                         s.join.peer, s.content_store[label].data),
                         Op("invite", n, PendingVerdict(n)))

\* handle_invite has a new key and the clock has moved on
CanPublish(n) == nodes[n].join.pc = "publish" /\ now > nodes[n].clk

\* handle_invite publishes the invites of the new key and goes on to the
\* next get
PublishAgain(n) ==
    /\ CanPublish(n)
    /\ JoinStep(n, [PublishInvites(nodes[n]) EXCEPT !.join.pc = "get", !.clk = now],
                Op("publish", n, "invites"))

\* node n asked for the invites of client m and m has published newer ones
CanDeliver(n, m) ==
    LET label == InviteLabel(m)
    IN /\ m # n
       /\ label \in DOMAIN nodes[m].content_store
       /\ label \in DOMAIN nodes[n].content_store
       /\ nodes[m].content_store[label].at > nodes[n].content_store[label].at

\* the invites client m published last reach node n, which asked for them
DeliverInvite(n, m) ==
    LET label == InviteLabel(m)
        c == nodes[m].content_store[label]
    IN /\ CanDeliver(n, m)
       /\ JoinStep(n, OnSet(nodes[n], SetItem(label, c.data, c.at, <<>>)),
                   Op("s", label, "new"))

\* a set item arrives under the label of the peer's invites whose data was
\* not published by the peer in this run
InjectInvite(n, data) ==
    LET label == InviteLabel(nodes[n].join.peer)
        it == SetItem(label, data, now, <<>>)
    IN /\ nodes[n].join.pc # "none"
       /\ label \in DOMAIN nodes[n].content_store
       /\ ~OldSet(nodes[n], it)
       /\ JoinStep(n, OnSet(nodes[n], it), Op("s", label, "injected"))

\* a coroutine of node n or a delivery to it can take a step now
Busy(n) ==
    \/ CanGet(n) \/ CanReturn(n) \/ CanPublish(n)
    \/ \E m \in DOMAIN nodes : CanDeliver(n, m)

\* time passes for the clients of a group, once no step is waiting
JoinTick ==
    /\ now < MaxJoinTime
    /\ \A n \in DOMAIN nodes : ~Busy(n)
    /\ now' = now + 1
    /\ last' = Op("tick", None, "tick")
    /\ UNCHANGED <<nodes, net>>

\* -------------------------------------------------------- specifications
Start(configs) ==
    /\ \E c \in configs : nodes = [n \in {"N"} |-> NewNode(c[1], c[2])]
    /\ now = 0
    /\ net = {}
    /\ last = Op("init", None, "init")

\* Spec: the interest table and the content store of one node (main or not,
\* client or relay) that receives get and set items and whose application
\* publishes
StoreItems ==
    GetItems({"C", "D"}, {0, 1})
      \cup SetItems({<<>>, <<(<<1, Me>>), (<<1, "D">>)>>})

Init == Start(BOOLEAN \X {NoAdvert, OwnAdvert(Me, <<"t">>, 1)})

Next ==
    \/ \E n \in DOMAIN nodes, msg \in Single(StoreItems) : Receive(n, "P1", msg)
    \/ \E n \in DOMAIN nodes : \E tm \in Timers(n) : InterestTimerFires(n, tm)
    \/ \E n \in DOMAIN nodes, label \in Labels, data \in Datas : CallSet(n, label, data)
    \/ Tick

Spec == Init /\ [][Next]_vars

\* SpecRoutes: the peer, client and route tables of a main relay node that
\* receives peer items and adverts from two peers
RouteItems == PeerItems \cup AdvertItems({"C"}, {<<>>})

InitRoutes == Start({<<TRUE, NoAdvert>>})

NextRoutes ==
    \/ \E n \in DOMAIN nodes, addr \in Addrs, msg \in Single(RouteItems) :
          Receive(n, addr, msg)
    \/ \E n \in DOMAIN nodes : \E tm \in Timers(n) : PeerTimerFires(n, tm)
    \/ \E n \in DOMAIN nodes : \E tm \in Timers(n) : ClientTimerFires(n, tm)
    \/ Tick

SpecRoutes == InitRoutes /\ [][NextRoutes]_vars

\* SpecMsg: a main relay node that receives messages of up to three items
MsgItems ==
    {PeerItem(1), AdvertItem("C", <<"t">>, MAX_SCORE - 1, 1, 2),
     GetItem("D", "t", 0, 1, 2),
     SetItem("t", "x", 1, <<>>), SetItem("t", "y", 2, <<(<<1, "D">>)>>)}

Distinct(seq) == \A i \in 1..Len(seq), j \in 1..Len(seq) : i # j => seq[i] # seq[j]

MultiMessages ==
    {[v |-> VERSION, items |-> q] :
        q \in {x \in (MsgItems \X MsgItems) \cup (MsgItems \X MsgItems \X MsgItems) :
                  Distinct(x)}}

InitMsg == Start({<<TRUE, NoAdvert>>})

NextMsg ==
    \/ \E n \in DOMAIN nodes, msg \in MultiMessages : Receive(n, "P1", msg)
    \/ Tick

SpecMsg == InitMsg /\ [][NextMsg]_vars

\* SpecRedeliver: a main relay node that receives adverts, gets and sets from
\* two peers, whose peers can time out
RedeliverAdverts == AdvertItems({"C"}, {<<"t">>})
RedeliverItems == GetItems({"D"}, {0}) \cup SetItems({<<>>})

InitRedeliver == Start({<<TRUE, NoAdvert>>})

NextRedeliver ==
    \/ \E n \in DOMAIN nodes, addr \in Addrs, msg \in Single(RedeliverAdverts) :
          Receive(n, addr, msg)
    \/ \E n \in DOMAIN nodes, msg \in Single(RedeliverItems) : Receive(n, "P1", msg)
    \/ \E n \in DOMAIN nodes : \E tm \in Timers(n) : PeerTimerFires(n, tm)
    \/ Tick

SpecRedeliver == InitRedeliver /\ [][NextRedeliver]_vars

\* the unicast queue and batch_send: adverts of publisher C from two peers,
\* interests of D in C's label, flushes that succeed or fail
SendAdverts == {AdvertItem("C", <<"t">>, sc, 1, 1) : sc \in Scores}
SendGets ==
    {GetItem("D", l, 0, ttp, e) : l \in Labels, ttp \in {0, 1}, e \in Eols}

InitSend == Start({<<TRUE, NoAdvert>>, <<FALSE, NoAdvert>>})

NextSend ==
    \/ \E n \in DOMAIN nodes, addr \in Addrs, msg \in Single(SendAdverts) :
          Receive(n, addr, msg)
    \/ \E n \in DOMAIN nodes, msg \in Single(SendGets) : Receive(n, "P1", msg)
    \/ \E n \in DOMAIN nodes : BatchSendStarts(n)
    \/ \E n \in DOMAIN nodes : \E b \in nodes[n].inflight, ok \in BOOLEAN :
          BatchSendReturns(n, b, ok)
    \/ \E n \in DOMAIN nodes : \E tm \in Timers(n) : PeerTimerFires(n, tm)
    \/ Tick

SpecSend == InitSend /\ [][NextSend]_vars

\* a network of two main nodes on two hosts: A, the client that publishes
\* label t, and B, a client that publishes nothing.  Every message sent is
\* delivered and every send succeeds; B calls get once and A calls set once,
\* in any order, up to time CallBy.
InitNet ==
    /\ nodes = [n \in {"A", "B"} |->
                  [NewNode(TRUE, OwnAdvert(n, IF n = "A" THEN <<"t">> ELSE <<>>, Ttp))
                      EXCEPT !.timers = {Timer("heartbeat", <<None, None>>, 1)}]]
    /\ now = 1
    /\ net = {}
    /\ last = Op("init", None, "init")

SysNet ==
    \/ \E n \in DOMAIN nodes : \E tm \in Timers(n) : Heartbeat(n, tm)
    \/ \E m \in net : Deliver(m)
    \/ \E n \in DOMAIN nodes : NetBatchSendStarts(n)
    \/ \E n \in DOMAIN nodes : \E b \in nodes[n].inflight : NetSendReturns(n, b)
    \/ \E n \in DOMAIN nodes : NetBatchBroadcast(n)
    \/ \E n \in DOMAIN nodes : \E tm \in Timers(n) : SubscribeRuns(n, tm)
    \/ \E n \in DOMAIN nodes : \E w \in nodes[n].waiters : GetResumes(n, w)
    \/ \E n \in DOMAIN nodes : \E tm \in Timers(n) : NetInterestTimerFires(n, tm)
    \/ NetTick

NextNet ==
    \/ SysNet
    \/ /\ now <= CallBy /\ nodes["B"].waiters = {}
       /\ CallGet("B", "t")
    \/ /\ now <= CallBy /\ "t" \notin DOMAIN nodes["A"].content_store
       /\ \E data \in Datas : NetCallSet("A", "t", data)

\* the steps of the network that the event loops and the wire take on their
\* own, each under weak fairness
HeartbeatSteps == \E n \in DOMAIN nodes : \E tm \in Timers(n) : Heartbeat(n, tm)
BatchSendSteps == \E n \in DOMAIN nodes : NetBatchSendStarts(n)
SendReturnSteps ==
    \E n \in DOMAIN nodes : \E b \in nodes[n].inflight : NetSendReturns(n, b)
BatchBroadcastSteps == \E n \in DOMAIN nodes : NetBatchBroadcast(n)
GetResumeSteps ==
    \E n \in DOMAIN nodes : \E w \in nodes[n].waiters : GetResumes(n, w)
InterestTimerSteps ==
    \E n \in DOMAIN nodes : \E tm \in Timers(n) : NetInterestTimerFires(n, tm)

\* ENABLED of \E m \in net : Deliver(m), and its steps
DeliverEnabled == net # {}
DeliverStep == last'.op = "deliver"

\* ENABLED of \E n, tm : SubscribeRuns(n, tm), and its steps
SubscribeEnabled ==
    \E n \in DOMAIN nodes : \E tm \in Timers(n) :
        /\ tm.kind = "subscribe" /\ now >= tm.eol
        /\ \E w \in nodes[n].waiters :
              w.label = tm.key[1] /\ w.caller = tm.key[2] /\ w.state # "returned"
SubscribeStep == last'.op = "subscribe"

\* messages are delivered and timers fire: weak fairness of every kind of
\* step but the calls of the applications (for the delivery and the
\* subscribe steps WF_vars is written out with the ENABLED predicate above)
FairNet ==
    /\ WF_vars(HeartbeatSteps)
    /\ WF_vars(BatchSendSteps)
    /\ WF_vars(SendReturnSteps)
    /\ WF_vars(BatchBroadcastSteps)
    /\ WF_vars(GetResumeSteps)
    /\ WF_vars(InterestTimerSteps)
    /\ WF_vars(NetTick)
    /\ (([]<>~DeliverEnabled) \/ ([]<><<DeliverStep>>_vars))
    /\ (([]<>~SubscribeEnabled) \/ ([]<><<SubscribeStep>>_vars))

SpecNet == InitNet /\ [][NextNet]_vars /\ FairNet

\* a client node (main or not) that receives adverts of its own client name
\* and of another client from two peers
SelfAdverts == AdvertItems({Me, "C"}, {<<"t">>})

InitSelf == Start(BOOLEAN \X {OwnAdvert(Me, <<"t">>, 1)})

NextSelf ==
    \/ \E n \in DOMAIN nodes, addr \in Addrs, msg \in Single(SelfAdverts) :
          Receive(n, addr, msg)
    \/ \E n \in DOMAIN nodes : \E tm \in Timers(n) : PeerTimerFires(n, tm)
    \/ \E n \in DOMAIN nodes : \E tm \in Timers(n) : ClientTimerFires(n, tm)
    \/ Tick

SpecSelf == InitSelf /\ [][NextSelf]_vars

\* SpecCodec: a main relay node that receives bytes from two peers: the
\* encoding of messages of one or two items, and the same bytes damaged
CodecMessages ==
    {[v |-> VERSION, items |-> q] :
        q \in {<<i>> : i \in MsgItems}
                 \cup {x \in {PeerItem(1)} \X MsgItems :
                          Distinct(x)}}

Without(d, key) == [k \in DOMAIN d \ {key} |-> d[k]]

\* the bytes with their last item replaced
WithLast(raw, item) ==
    [raw EXCEPT !.d.i = [k \in 1..Len(@) |-> IF k = Len(@) THEN item ELSE @[k]]]

\* what a sender of another version, a faulty sender or the wire makes of
\* the bytes: no JSON, another version, a key of the message or of its last
\* item missing, a discriminator no item class has
Damaged(raw) ==
    LET item == raw.d.i[Len(raw.d.i)]
    IN {[raw EXCEPT !.json = FALSE],
        [raw EXCEPT !.d.v = "0.1"],
        [raw EXCEPT !.d = Without(@, "v")],
        [raw EXCEPT !.d = Without(@, "i")],
        WithLast(raw, [item EXCEPT !.t = "x"])}
       \cup {WithLast(raw, Without(item, key)) : key \in DOMAIN item}

DamagedBytes == UNION {Damaged(ToBytes(msg)) : msg \in CodecMessages}

InitCodec == Start({<<TRUE, NoAdvert>>})

NextCodec ==
    \/ \E n \in DOMAIN nodes, addr \in Addrs, msg \in CodecMessages :
          ReceiveData(n, addr, ToBytes(msg), "intact")
    \/ \E n \in DOMAIN nodes, addr \in Addrs, raw \in DamagedBytes :
          ReceiveData(n, addr, raw, "damaged")
    \/ Tick

SpecCodec == InitCodec /\ [][NextCodec]_vars

\* SpecFlush: a main relay node that receives adverts of two clients, with
\* short and long label lists, and rebroadcasts them in batches; the flush
\* timer fires on time and no client times out.  `net` keeps every message
\* handed to broadcast_msg, with its outcome, the queue entries (ids)
\* its items were and the time of the flush.
LongLabel == "building-7/floor-3/room-12/sensors/air/temperature/celsius/one-minute-average/calibrated/channel-001"
Short == <<"t">>
Wide == <<LongLabel, LongLabel>>
Huge == <<LongLabel, LongLabel, LongLabel, LongLabel, LongLabel>>
FlushAdverts ==
    {AdvertItem(x[1], x[2], MAX_SCORE - 1, p, e) :
        x \in {<<"C", Short>>, <<"C", Wide>>, <<"D", Wide>>, <<"D", Huge>>},
        p \in {1, 2}, e \in {4, 5}}

\* an advert arrives in a message of its own
FlushReceive(n, addr, advert) ==
    /\ nodes[n].next_bid < MaxBids
    /\ now + advert.ttp <= MaxFlushTime
    /\ nodes' = [nodes EXCEPT ![n] =
                    OnMessage(nodes[n], addr, [v |-> VERSION, items |-> <<advert>>])]
    /\ last' = Op("a", addr, TagOf(nodes[n], addr, advert))
    /\ UNCHANGED <<now, net>>

\* the flush timer of schedule_batch_broadcast is due
FlushDue(n) == \E tm \in nodes[n].batch_broadcast_task : 2 * now >= tm.eol2

\* how the broadcast_msg of batch_broadcast ends: it returns (TRUE), or it
\* raises OSError, which batch_broadcast logs (FALSE)
BroadcastOutcomes == BOOLEAN

\* the flush timer fires: batch_broadcast; the message it hands to
\* broadcast_msg is kept with the outcome (emitted or not)
FlushFires(n) ==
    /\ FlushDue(n)
    /\ \E drop \in [{e.id : e \in nodes[n].broadcast_queue} -> ScoreDrops],
          ok \in BroadcastOutcomes :
          LET r == BatchBroadcast(nodes[n], drop)
              ids == {e.id : e \in nodes[n].broadcast_queue}
                        \ {e.id : e \in r.s.broadcast_queue}
          IN /\ nodes' = [nodes EXCEPT ![n] = r.s]
             /\ net' = net \cup {[src |-> n, dst |-> "*", items |-> r.items,
                                  ids |-> ids, at |-> now, emitted |-> ok]}
             /\ last' = Op("batch_broadcast", n, IF ok THEN "sent" ELSE "failed")
             /\ UNCHANGED now

\* time passes once nothing is due
FlushTick ==
    /\ now < MaxFlushTime
    /\ \A n \in DOMAIN nodes : ~FlushDue(n)
    /\ now' = now + 1
    /\ last' = Op("tick", None, "tick")
    /\ UNCHANGED <<nodes, net>>

InitFlush == Start({<<TRUE, NoAdvert>>})

NextFlush ==
    \/ \E n \in DOMAIN nodes, advert \in FlushAdverts : FlushReceive(n, "P1", advert)
    \/ \E n \in DOMAIN nodes : FlushFires(n)
    \/ FlushTick

SpecFlush == InitFlush /\ [][NextFlush]_vars

\* the flush timer fires when it is due and time passes
FairFlush ==
    /\ WF_vars(FlushTick)
    /\ (([]<>~FlushDue("N")) \/ ([]<><<last'.op = "batch_broadcast">>_vars))

SpecFlushFair == SpecFlush /\ FairFlush

\* SpecJoin: clients X and Y join the group with each other's public key;
\* the invites one publishes reach the other, every coroutine gets its
\* turn and time passes
InitJoin ==
    /\ nodes = [n \in {"X", "Y"} |-> ClientNode(n)]
    /\ now = 1
    /\ net = {}
    /\ last = Op("init", None, "init")

NextJoin ==
    \/ \E n \in DOMAIN nodes : \E m \in DOMAIN nodes \ {n} : JoinCalls(n, m)
    \/ \E n \in DOMAIN nodes : GetInvite(n)
    \/ \E n \in DOMAIN nodes : InviteReturns(n)
    \/ \E n \in DOMAIN nodes : PublishAgain(n)
    \/ \E n, m \in DOMAIN nodes : DeliverInvite(n, m)
    \/ JoinTick

\* every coroutine gets its turn, every invite is delivered and time passes
\* (weak fairness of the steps other than the calls of join, written with
\* the guards of the actions)
FairJoin ==
    /\ ([]<>(\A n \in DOMAIN nodes : ~Busy(n)))
          \/ ([]<><<last'.op \in {"get", "invite", "publish", "s"}>>_vars)
    /\ WF_vars(JoinTick)

SpecJoin == InitJoin /\ [][NextJoin]_vars /\ FairJoin

\* SpecInvite: client X joins the group with the public key of Y and
\* receives invites of every kind under Y's label: signed by Y or by Z,
\* with and without a key, listing X or not
InvitesSeen ==
    {EncodeInvite([d |-> [at |-> a, invites |-> [c \in cs |-> [by |-> signer, at |-> a]]],
                   s |-> signer]) :
        signer \in {"Y", "Z"}, a \in {0, 2, 3}, cs \in {{"X"}, {"W"}}}

InitInvite ==
    /\ nodes = [n \in {"X"} |-> ClientNode(n)]
    /\ now = 1
    /\ net = {}
    /\ last = Op("init", None, "init")

NextInvite ==
    \/ \E n \in DOMAIN nodes : JoinCalls(n, "Y")
    \/ \E n \in DOMAIN nodes : GetInvite(n)
    \/ \E n \in DOMAIN nodes : InviteReturns(n)
    \/ \E n \in DOMAIN nodes : PublishAgain(n)
    \/ \E n \in DOMAIN nodes, data \in InvitesSeen : InjectInvite(n, data)
    \/ JoinTick

SpecInvite == InitInvite /\ [][NextInvite]_vars

\* a non-main client node N next to its host's main node: the application
\* calls get for label t with a ttl of FwdTtls, adverts of publisher C, gets
\* of client D and publications of t arrive, sends succeed or fail; what N
\* writes to a peer is kept in net.  The application calls get as the first
\* thing at a reading of the clock (two calls never read the same time) and
\* messages arrive when the event loop is idle.
FwdTtls == {2, 4}
FwdItems ==
    {AdvertItem("C", <<"t">>, MAX_SCORE - 1, 1, MaxFwdTime + 1),
     GetItem("D", "t", 0, 1, MaxFwdTime + 1),
     SetItem("t", "x", 1, <<>>)}

\* a message arrives at N
FwdReceive(n, addr, msg) ==
    NetStep(n, OnMessage(nodes[n], addr, msg),
            Op(msg.items[1].t, addr, TagOf(nodes[n], addr, msg.items[1])), net)

\* one iteration of the subscribe loop of a get called with ttl
FwdSubscribe(n, tm, ttl) ==
    /\ tm.kind = "subscribe" /\ now >= tm.eol
    /\ \E w \in nodes[n].waiters :
          /\ w.label = tm.key[1] /\ w.caller = tm.key[2] /\ w.state # "returned"
          /\ NetStep(n, Subscribe(nodes[n], tm, w, ttl, Tpf, Ttp),
                 Op("subscribe", w.label,
                    TagOf(nodes[n], None,
                          GetItem(OwnClient(nodes[n]), w.label, w.after, Ttp,
                                  now + ttl))),
                 net)

\* send_msg returns: the message was written to the peer, or it raised
FwdSendReturns(n, b, ok) ==
    /\ b \in nodes[n].inflight
    /\ NetStep(n, BatchSendEnd(nodes[n], b, ok),
               Op("send_msg", b.addr, IF ok THEN "ok" ELSE "failed"),
               IF ok THEN net \cup {[src |-> n, dst |-> b.addr, items |-> b.items]}
               ELSE net)

\* time passes once nothing is due
FwdTick ==
    /\ now < MaxFwdTime
    /\ \A n \in DOMAIN nodes : ~Due(n)
    /\ now' = now + 1
    /\ last' = Op("tick", None, "tick")
    /\ UNCHANGED <<nodes, net>>

InitFwd == Start({<<FALSE, OwnAdvert(Me, <<>>, 1)>>})

NextFwd ==
    \/ /\ now <= CallBy /\ last.op \in {"init", "tick"}
       /\ \A w \in nodes["N"].waiters : w.state = "returned"
       /\ CallGet("N", "t")
    \/ \E tm \in Timers("N"), ttl \in FwdTtls : FwdSubscribe("N", tm, ttl)
    \/ \E w \in nodes["N"].waiters : GetResumes("N", w)
    \/ /\ ~Due("N")
       /\ \E msg \in Single(FwdItems) : FwdReceive("N", "P1", msg)
    \/ NetBatchSendStarts("N")
    \/ \E b \in nodes["N"].inflight, ok \in BOOLEAN : FwdSendReturns("N", b, ok)
    \/ NetBatchBroadcast("N")
    \/ \E tm \in Timers("N") : NetInterestTimerFires("N", tm)
    \/ FwdTick

SpecFwd == InitFwd /\ [][NextFwd]_vars

\* a main client node N whose application calls get for label t, one call
\* after the other, and publishes t itself, while publications of t arrive
\* from the network with any number as their time
GetAts == {0 - 2, 0 - 1, 0, 1, 2}
GetSets == {SetItem("t", d, a, <<>>) : d \in {"x"}, a \in GetAts}

InitGet ==
    /\ nodes = [n \in {"N"} |-> NewNode(TRUE, OwnAdvert(Me, <<"t">>, 1))]
    /\ now = 1
    /\ net = {}
    /\ last = Op("init", None, "init")

NextGet ==
    \/ /\ now <= CallBy
       /\ \A w \in nodes["N"].waiters : w.state = "returned"
       /\ CallGet("N", "t")
    \/ \E tm \in Timers("N") : SubscribeRuns("N", tm)
    \/ \E w \in nodes["N"].waiters : GetResumes("N", w)
    \/ \E msg \in Single(GetSets) : FwdReceive("N", "P1", msg)
    \/ /\ now <= CallBy
       /\ \E data \in Datas : NetCallSet("N", "t", data)
    \/ FwdTick

SpecGet == InitGet /\ [][NextGet]_vars

\* a node started without a client (main or not), or with one, that
\* receives get and set items and whose application calls get and set
UsageItems ==
    GetItems({"C"}, {0})
      \cup {SetItem("t", "x", a, dst) : a \in Eols, dst \in {<<>>, <<(<<1, "D">>)>>}}

InitUsage ==
    Start({<<TRUE, NoAdvert>>, <<FALSE, NoAdvert>>,
           <<TRUE, OwnAdvert(Me, <<"t">>, 1)>>})

\* the application calls get(label, Ttl, Tpf, Ttp); "error" is the
\* RuntimeError of a node without a client
UsageCallGet(n, label) ==
    Step(n, ApiGet(nodes[n], label, FALSE),
         Op("get", label,
            IF nodes[n].advert.client = None THEN "error" ELSE "called"))

NextUsage ==
    \/ \E n \in DOMAIN nodes, msg \in Single(UsageItems) : Receive(n, "P1", msg)
    \/ \E n \in DOMAIN nodes : \E tm \in Timers(n) : InterestTimerFires(n, tm)
    \/ \E n \in DOMAIN nodes, label \in Labels :
          /\ \A w \in nodes[n].waiters : w.state = "returned"
          /\ UsageCallGet(n, label)
    \/ \E n \in DOMAIN nodes, label \in Labels, data \in Datas : CallSet(n, label, data)
    \/ Tick

SpecUsage == InitUsage /\ [][NextUsage]_vars

\* a main relay node that receives adverts with a ttp of 0 or 4, short
\* enough to share a datagram or not; a due flush timer fires before
\* anything else happens (timers fire on time), broadcast_msg returns or
\* raises.  The clock ticks in units that keep the flush times of the
\* adverts apart from their deadlines.
TtpAdverts ==
    {AdvertItem(x[1], x[2], MAX_SCORE - 1, p, e) :
        x \in {<<"C", Wide>>, <<"D", Huge>>}, p \in {0, 4}, e \in {8, 9}}

TtpReceive(n, addr, advert) ==
    /\ nodes[n].next_bid < MaxBids
    /\ now + advert.ttp <= MaxTtpTime
    /\ ~FlushDue(n)
    /\ nodes' = [nodes EXCEPT ![n] =
                    OnMessage(nodes[n], addr, [v |-> VERSION, items |-> <<advert>>])]
    /\ last' = Op("a", addr, TagOf(nodes[n], addr, advert))
    /\ UNCHANGED <<now, net>>

TtpTick ==
    /\ now < MaxTtpTime
    /\ \A n \in DOMAIN nodes : ~FlushDue(n)
    /\ now' = now + 1
    /\ last' = Op("tick", None, "tick")
    /\ UNCHANGED <<nodes, net>>

NextTtp ==
    \/ \E n \in DOMAIN nodes, advert \in TtpAdverts : TtpReceive(n, "P1", advert)
    \/ \E n \in DOMAIN nodes : FlushFires(n)
    \/ TtpTick

SpecTtp == InitFlush /\ [][NextTtp]_vars

\* a main relay node that holds a publication of t, knows routes to the
\* clients C and D, receives their gets for t and flushes its send queue
FulfilItems ==
    {AdvertItem(c, <<>>, MAX_SCORE - 1, 1, MaxEol) : c \in {"C", "D"}}
      \cup {GetItem(c, "t", 0, 1, MaxEol) : c \in {"C", "D"}}
      \cup {SetItem("t", "x", 1, <<>>)}

NextFulfil ==
    \/ \E n \in DOMAIN nodes, msg \in Single(FulfilItems) : Receive(n, "P1", msg)
    \/ \E n \in DOMAIN nodes : BatchSendStarts(n)
    \/ \E n \in DOMAIN nodes : \E b \in nodes[n].inflight, ok \in BOOLEAN :
          BatchSendReturns(n, b, ok)
    \/ Tick

SpecFulfil == InitRedeliver /\ [][NextFulfil]_vars

\* a main client node N whose application has up to MaxCallers calls of get
\* for label t, waiting at the same time or one after the other, while
\* publications of t arrive; a woken get resumes before time passes
ShareSets == {SetItem("t", d, a, <<>>) : d \in Datas, a \in Eols}

NextShare ==
    \/ /\ now <= CallBy
       /\ Cardinality(nodes["N"].waiters) < MaxCallers
       /\ CallGet("N", "t")
    \/ \E tm \in Timers("N") : SubscribeRuns("N", tm)
    \/ \E w \in nodes["N"].waiters : GetResumes("N", w)
    \/ \E msg \in Single(ShareSets) : FwdReceive("N", "P1", msg)
    \/ FwdTick

\* a woken get resumes
FairShare == WF_vars(\E w \in nodes["N"].waiters : GetResumes("N", w))

SpecShare == InitGet /\ [][NextShare]_vars /\ FairShare

\* a main client node N whose application calls get for label t (up to
\* MaxCallers calls) and cancels calls that wait, while publications of t
\* with and without a destination arrive and the send queue is flushed
CancelSets ==
    {SetItem("t", "x", a, dst) : a \in Eols, dst \in {<<>>, <<(<<1, "D">>)>>}}

\* the caller cancels a get that waits
GetCancelled(n, w) ==
    /\ w \in nodes[n].waiters /\ w.state = "waiting"
    /\ NetStep(n, CancelGet(nodes[n], w), Op("get", w.label, "cancelled"), net)

NextCancel ==
    \/ /\ now <= CallBy
       /\ Cardinality(nodes["N"].waiters) < MaxCallers
       /\ CallGet("N", "t")
    \/ \E w \in nodes["N"].waiters : GetCancelled("N", w)
    \/ \E tm \in Timers("N") : SubscribeRuns("N", tm)
    \/ \E w \in nodes["N"].waiters : GetResumes("N", w)
    \/ \E msg \in Single(CancelSets) : FwdReceive("N", "P1", msg)
    \/ NetBatchSendStarts("N")
    \/ FwdTick

SpecCancel == InitGet /\ [][NextCancel]_vars

\* a main client node N whose application calls get for label t with a ttl
\* of AliveTtl and Tpf iterations per ttl, lets the calls wait, or cancels
\* them; publications of t arrive, interest timers fire
AliveTtl == 2

\* one iteration of the subscribe loop of a get; `last` keeps the caller and
\* the state of its get
KeepAlive(n, tm) ==
    /\ tm.kind = "subscribe" /\ now >= tm.eol
    /\ \E w \in nodes[n].waiters :
          /\ w.label = tm.key[1] /\ w.caller = tm.key[2]
          /\ NetStep(n, Subscribe(nodes[n], tm, w, AliveTtl, Tpf, Ttp),
                     Op("subscribe", w.caller, w.state), net)

NextAlive ==
    \/ /\ now <= CallBy
       /\ Cardinality(nodes["N"].waiters) < MaxCallers - 1
       /\ CallGet("N", "t")
    \/ \E w \in nodes["N"].waiters : GetCancelled("N", w)
    \/ \E tm \in Timers("N") : KeepAlive("N", tm)
    \/ \E w \in nodes["N"].waiters : GetResumes("N", w)
    \/ \E msg \in Single(ShareSets) : FwdReceive("N", "P1", msg)
    \/ \E tm \in Timers("N") : NetInterestTimerFires("N", tm)
    \/ FwdTick

SpecAlive == InitGet /\ [][NextAlive]_vars

\* SpecPub: a node N (a main relay or a client beside it) between publishers and
\* subscribers: adverts of C and D that list no label, t, or t and u, an
\* advert of the node's own client, and gets of D and E for t and u arrive;
\* the timers of peers, clients and interests fire on time, and messages
\* arrive when no timer is due.
PubAdverts ==
    {AdvertItem("C", l, MAX_SCORE - 1, 1, e) :
        l \in {<<>>, <<"t">>, <<"t", "u">>}, e \in {MaxPubTime - 1, MaxPubTime + 1}}
      \cup {AdvertItem("D", <<"t">>, MAX_SCORE - 1, 1, MaxPubTime + 1),
            AdvertItem(Me, <<"t">>, MAX_SCORE - 1, 1, MaxPubTime + 1)}
PubGets ==
    {GetItem("D", "t", 0, 1, MaxPubTime + 1)}
      \cup {GetItem("E", l, 0, 2, MaxPubTime - 1) : l \in {"t", "u"}}

\* a message of one advert or get arrives at N; `last` keeps the client the
\* item names
PubReceive(n, addr, msg) ==
    /\ \A tm \in Timers(n) : now < tm.eol
    /\ nodes[n].next_id < MaxPubIds
    /\ nodes[n].next_bid < MaxPubAdverts
    /\ NetStep(n, OnMessage(nodes[n], addr, msg),
               Op(msg.items[1].t, msg.items[1].client,
                  TagOf(nodes[n], addr, msg.items[1])), net)

\* the timer of a peer, a client or an interest fires
PubTimerFires(n, tm) ==
    /\ tm \in nodes[n].timers /\ now >= tm.eol
    /\ tm.kind \in {"peer", "client", "interest"}
    /\ LET s == nodes[n]
           s1 == CASE tm.kind = "peer" -> PeerOnTimeout(s, tm.key[1])
                   [] tm.kind = "client" -> ClientOnTimeout(s, tm.key[1])
                   [] tm.kind = "interest" ->
                          InterestOnTimeout(s, tm.key[1], tm.key[2])
       IN NetStep(n, [s1 EXCEPT !.timers = @ \ {tm}],
                  Op(tm.kind, tm.key[1], "fired"), net)

PubTick ==
    /\ now < MaxPubTime
    /\ \A tm \in Timers("N") : now < tm.eol
    /\ now' = now + 1
    /\ last' = Op("tick", None, "tick")
    /\ UNCHANGED <<nodes, net>>

InitPub == Start({<<TRUE, NoAdvert>>, <<FALSE, OwnAdvert(Me, <<>>, 1)>>})

NextPub ==
    \/ \E msg \in Single(PubAdverts \cup PubGets) : PubReceive("N", "P1", msg)
    \/ \E tm \in Timers("N") : PubTimerFires("N", tm)
    \/ PubTick

SpecPub == InitPub /\ [][NextPub]_vars

\* SpecReroute: a main relay node N that receives a publication for
\* subscriber D before it knows a route to D.  The advert of publisher C and a
\* get of E for C's label arrive from P1, the advert of D arrives from either
\* peer, all up to time RerouteBy; adverts outlive the run, every send
\* succeeds, flushes run when they are due and time passes.
RerouteItems ==
    {SetItem("t", "x", 1, <<(<<1, "D">>)>>),
     AdvertItem("C", <<"t">>, MAX_SCORE - 1, 1, MaxRerouteTime + 1),
     GetItem("E", "t", 1, 1, MaxRerouteTime + 1)}
RerouteAdvert == AdvertItem("D", <<>>, MAX_SCORE - 1, 1, MaxRerouteTime + 1)

RerouteTick ==
    /\ now < MaxRerouteTime
    /\ ~Due("N")
    /\ now' = now + 1
    /\ last' = Op("tick", None, "tick")
    /\ UNCHANGED <<nodes, net>>

InitReroute == Start({<<TRUE, NoAdvert>>})

NextReroute ==
    \/ /\ now <= RerouteBy /\ ~Due("N")
       /\ \E msg \in Single(RerouteItems) : FwdReceive("N", "P1", msg)
    \/ /\ now <= RerouteBy /\ ~Due("N")
       /\ \E addr \in Addrs : FwdReceive("N", addr, [v |-> VERSION, items |-> <<RerouteAdvert>>])
    \/ NetBatchSendStarts("N")
    \/ \E b \in nodes["N"].inflight : FwdSendReturns("N", b, TRUE)
    \/ NetBatchBroadcast("N")
    \/ RerouteTick

FairReroute ==
    /\ WF_vars(RerouteTick)
    /\ (([]<>(\A tm \in nodes["N"].batch_send_task : 2 * now < tm.eol2))
           \/ ([]<><<last'.op = "batch_send">>_vars))
    /\ (([]<>(nodes["N"].inflight = {})) \/ ([]<><<last'.op = "send_msg">>_vars))
    /\ (([]<>(\A tm \in nodes["N"].batch_broadcast_task : 2 * now < tm.eol2))
           \/ ([]<><<last'.op = "batch_broadcast">>_vars))

SpecReroute == InitReroute /\ [][NextReroute]_vars /\ FairReroute

\* SpecBeat: two main nodes on two hosts, the client A (with or without a
\* label, with ttp 0 or Ttp) and the relay R, that only run their regular
\* broadcasts: every datagram is delivered, the
\* broadcast queues are flushed when due, and time passes when nothing is due
InitBeat ==
    /\ \E labels \in {<<>>, <<"t">>}, ttp \in {0, Ttp} :
          nodes = [n \in {"A", "R"} |->
                     [NewNode(TRUE, IF n = "A" THEN OwnAdvert(n, labels, ttp)
                                    ELSE NoAdvert)
                         EXCEPT !.timers = {Timer("heartbeat", <<None, None>>, 1)}]]
    /\ now = 1
    /\ net = {}
    /\ last = Op("init", None, "init")

NextBeat ==
    \/ \E n \in DOMAIN nodes : \E tm \in Timers(n) : Heartbeat(n, tm)
    \/ \E m \in net : Deliver(m)
    \/ \E n \in DOMAIN nodes : NetBatchBroadcast(n)
    \/ NetTick

SpecBeat == InitBeat /\ [][NextBeat]_vars

\* SpecLabels: the label list a client node advertises while its application
\* joins group g with the clients X and Y (one handle_invite loop each, any
\* number of calls) and the loops obtain group keys; when and from which
\* invite a loop obtains a key is left open.
GroupLabel(label) == GroupName \o "//" \o label

\* a sequence without the elements of drop
RECURSIVE Unlisted(_, _)
Unlisted(seq, drop) ==
    IF seq = <<>> THEN <<>>
    ELSE (IF seq[1] \in drop THEN <<>> ELSE <<seq[1]>>)
            \o Unlisted(Tail(seq), drop)

\* the head of Node.join: the first call for a group appends group/client to
\* the advertised labels and keeps the labels of the group
JoinRegister(s, labels) ==
    IF GroupName \in DOMAIN s.groups THEN s
    ELSE [s EXCEPT
            !.advert.labels = Append(@, InviteLabel(OwnClient(s))),
            !.groups = Put(@, GroupName,
                           Extend(NewGroup, [labels |-> labels,
                                             encrypted_labels |-> <<>>]))]

\* RebuildLabels without the removal of the labels advertised so far
RebuildLabels_Extend(s) ==
    LET g == s.groups[GroupName]
        enc == [k \in 1..Len(g.labels) |-> GroupLabel(g.labels[k])]
    IN [s EXCEPT !.advert.labels = @ \o enc,
                 !.groups[GroupName].encrypted_labels = enc]

\* handle_invite after it obtained a key: the advertised labels lose the
\* encrypted labels of the group and gain the new ones
RebuildLabels(s) ==
    LET g == s.groups[GroupName]
        enc == [k \in 1..Len(g.labels) |-> GroupLabel(g.labels[k])]
    IN [s EXCEPT
          !.advert.labels = Unlisted(@, Range(g.encrypted_labels)) \o enc,
          !.groups[GroupName].encrypted_labels = enc]

\* the application calls join(g, client, key, labels, ...): the call runs to
\* its first await, inside publish_invites
LabelsJoinCalls(n, client, labels) ==
    LET s1 == JoinRegister(nodes[n], labels)
        s2 == [s1 EXCEPT !.groups[GroupName].keys = @ \cup {client},
                         !.loops = @ \cup {client}]
    IN NetStep(n, PublishInvites(s2),
               Op("join", client,
                  IF GroupName \in DOMAIN nodes[n].groups THEN "again"
                  ELSE "first"),
               net)

\* the handle_invite loop for client obtains a group key, its own
\* (generated) or the one client sent, rebuilds the labels and publishes
\* its invites
LabelsKeyChange(n, client, by) ==
    /\ client \in nodes[n].loops
    /\ nodes[n].changes < MaxKeyChanges
    /\ nodes[n].groups[GroupName].at < now
    /\ LET s1 == [nodes[n] EXCEPT
                    !.groups[GroupName].raw = [by |-> by, at |-> now],
                    !.groups[GroupName].at = now,
                    !.changes = @ + 1]
       IN NetStep(n, PublishInvites(RebuildLabels(s1)),
                  Op("key", client, "changed"), net)

LabelsTick ==
    /\ now < MaxKeyChanges
    /\ now' = now + 1
    /\ last' = Op("tick", None, "tick")
    /\ UNCHANGED <<nodes, net>>

InitLabels ==
    /\ \E base \in {<<>>, <<"t">>} :
          nodes = [n \in {"N"} |->
                     Extend(NewNode(TRUE, OwnAdvert(Me, base, 1)),
                            [groups |-> EmptyMap, loops |-> {}, changes |-> 0])]
    /\ now = 1
    /\ net = {}
    /\ last = Op("init", None, "init")

NextLabels ==
    \/ \E client \in {"X", "Y"}, labels \in {<<>>, <<"a">>, <<"a", "b">>} :
          LabelsJoinCalls("N", client, labels)
    \/ \E client \in {"X", "Y"} :
          \E by \in {Me, client} : LabelsKeyChange("N", client, by)
    \/ LabelsTick

SpecLabels == InitLabels /\ [][NextLabels]_vars

\* ------------------------------------------------------------ group data
\* the keys the group of the model can hold, and a key written as its name
GroupKeys == {[by |-> "X", at |-> 1], [by |-> "Y", at |-> 2]}
KeyName(key) == key.by \o "@" \o Digit(key.at)

\* Fernet.encrypt and base64.b64encode of set: the published string of a
\* value, a token that names the key it was made with
Encrypt(key, data) == "b64(fernet(" \o KeyName(key) \o "," \o data \o "))"

\* what Fernet.decrypt raises for a token made with another key
InvalidToken == "InvalidToken"

\* base64.b64decode and Fernet.decrypt of get: the value of a token made
\* with this key
Decrypt(key, token) ==
    IF \E d \in Datas : token = Encrypt(key, d)
    THEN CHOOSE d \in Datas : token = Encrypt(key, d)
    ELSE InvalidToken

\* what `self.get(label, ttl, tpf, ttp, group)` evaluates to without an
\* await: a coroutine object whose body never starts
Coroutine == "<coroutine object Node.get>"

\* the end of Node.get with a group: the stored data decrypted with the
\* group key, or on InvalidToken the result of the call of self.get
GroupData(s, data) ==
    LET d == Decrypt(s.groups[GroupName].raw, data)
    IN IF d = InvalidToken THEN Coroutine ELSE d

\* Node.get with a group after `await fulfil`
GroupGetReturn(s, label, w) ==
    LET s1 == GetReturn(s, label, w)
        r == [w EXCEPT !.state = "returned",
                       !.data = s.content_store[label].data]
    IN [s1 EXCEPT !.waiters =
            (@ \ {r}) \cup {[r EXCEPT !.data = GroupData(s, r.data)]}]

\* Node.get with a group up to `await fulfil`, or to its return when the
\* store holds a value newer than the last one returned
ApiGetGroup(s, label, known) ==
    LET s1 == ApiGet(s, GroupLabel(label), known)
        new == s1.waiters \ s.waiters
    IN [s1 EXCEPT !.waiters =
            {IF x \in new /\ x.state = "returned"
             THEN [x EXCEPT !.data = GroupData(s, x.data)] ELSE x : x \in @}]

\* Node.set with a group: the data encrypted with the group key and
\* published under group + "//" + label
ApiSetGroup(s, label, data) ==
    ApiSet(s, GroupLabel(label), Encrypt(s.groups[GroupName].raw, data))

\* the application calls get(label, Ttl, Tpf, Ttp, group)
GroupCallGet(n, label) ==
    NetStep(n, ApiGetGroup(nodes[n], label, FALSE),
            Op("get", GroupLabel(label), "called"), net)

\* a group get whose future was resolved by on_set resumes and returns
GroupGetResumes(n, w) ==
    /\ w \in nodes[n].waiters /\ w.state = "woken"
    /\ NetStep(n, GroupGetReturn(nodes[n], w.label, w),
               Op("get", w.label, "returned"), net)

\* the application calls set(label, data, group)
GroupCallSet(n, label, data) ==
    NetStep(n, ApiSetGroup(nodes[n], label, data),
            Op("set", GroupLabel(label), "called"), net)

\* a member N of group g that holds one of the group's keys; its
\* application calls get and set for label t under the group, while
\* members publish t under either key
GroupSets ==
    {SetItem(GroupLabel("t"), Encrypt(k, d), a, <<>>) :
        k \in GroupKeys, d \in Datas, a \in 1..MaxGroupAt}

InitGroup ==
    /\ \E k \in GroupKeys :
          nodes = [n \in {"N"} |->
                     Extend(NewNode(TRUE, OwnAdvert(Me, <<>>, 1)),
                            [groups |-> [g \in {GroupName} |->
                                [keys |-> {"X", "Y"}, raw |-> k, at |-> k.at]]])]
    /\ now = 1
    /\ net = {}
    /\ last = Op("init", None, "init")

NextGroup ==
    \/ /\ now <= CallBy
       /\ \A w \in nodes["N"].waiters : w.state = "returned"
       /\ GroupCallGet("N", "t")
    \/ \E tm \in Timers("N") : SubscribeRuns("N", tm)
    \/ \E w \in nodes["N"].waiters : GroupGetResumes("N", w)
    \/ \E msg \in Single(GroupSets) : FwdReceive("N", "P1", msg)
    \/ /\ now <= CallBy
       /\ \E data \in Datas : GroupCallSet("N", "t", data)
    \/ FwdTick

SpecGroup == InitGroup /\ [][NextGroup]_vars

\* ------------------------------------------------------------------ claims
N == nodes["N"]

\* C1: for every label the at of the content-store entry only ever changes to
\* a strictly larger value, and the published data changes only with it; a
\* received set item whose at is at most the stored at leaves the content
\* store and the unicast queue as they were.
C1_MonotonicContent ==
    [][\A n \in DOMAIN nodes :
         LET cs == nodes[n].content_store
             cs2 == nodes'[n].content_store
         IN /\ \A l \in DOMAIN cs :
                 /\ l \in DOMAIN cs2
                 /\ cs2[l].at >= cs[l].at
                 /\ cs2[l].at = cs[l].at => cs2[l].data = cs[l].data
            /\ \A it \in StoreItems :
                 (/\ it.t = "s"
                  /\ it.label \in DOMAIN cs
                  /\ it.at <= cs[it.label].at
                  /\ Receive(n, "P1", [v |-> VERSION, items |-> <<it>>]))
                 => /\ cs2 = cs
                    /\ nodes'[n].send_queue = nodes[n].send_queue]_vars

\* a set item no newer than the stored publication has just been handled
C1_Witness ==
    /\ last.op = "s" /\ last.tag = "old"
    /\ "t" \in DOMAIN N.content_store
    /\ N.content_store["t"].at = 2

\* the (label, client) pairs that have a stored interest
InterestKeys(s) ==
    UNION {{<<l, c>> : c \in DOMAIN s.interests[l]} : l \in DOMAIN s.interests}

\* C8: an interest leaves the table only when its own timer fires, at or
\* after its eol; it is replaced only by a get with a strictly newer eol,
\* whose timer replaces the old one (every stored interest has exactly its
\* own timer pending); a firing interest timer removes its entry; and no
\* bucket of the table is ever empty.
C8_InterestLiveness ==
    [][\A n \in DOMAIN nodes :
         LET s == nodes[n]
             s2 == nodes'[n]
         IN /\ \A l \in DOMAIN s2.interests : DOMAIN s2.interests[l] # {}
            /\ {tm \in s2.timers : tm.kind = "interest"}
                 = {Timer("interest", k, s2.interests[k[1]][k[2]].eol) :
                        k \in InterestKeys(s2)}
            /\ \A k \in InterestKeys(s) :
                 /\ k \notin InterestKeys(s2)
                      => /\ now >= s.interests[k[1]][k[2]].eol
                         /\ \E tm \in s.timers : InterestTimerFires(n, tm)
                 /\ (k \in InterestKeys(s2)
                       /\ s2.interests[k[1]][k[2]] # s.interests[k[1]][k[2]])
                      => s2.interests[k[1]][k[2]].eol > s.interests[k[1]][k[2]].eol
            /\ \A tm \in s.timers :
                 InterestTimerFires(n, tm) => tm.key \notin InterestKeys(s2)]_vars

\* the timer of the last interest of a label has fired at its eol, after the
\* interest of another client in the same label was replaced by a newer one
\* and outlived its old eol
C8_Witness ==
    /\ last.op = "interest_timeout"
    /\ DOMAIN N.interests = {"t"}
    /\ DOMAIN N.interests["t"] = {"D"}
    /\ N.interests["t"]["D"].eol = 2
    /\ now = 1

\* C3: every route list is sorted by score, descending, and names each
\* next-hop address at most once.
C3_RoutesSortedUnique ==
    \A n \in DOMAIN nodes : \A c \in DOMAIN nodes[n].routes :
        LET r == nodes[n].routes[c]
        IN \A i \in 1..Len(r), j \in 1..Len(r) :
              i < j => r[i].score >= r[j].score /\ r[i].addr # r[j].addr

\* an advert has just put its peer in front of a better-scored older entry
C3_Witness ==
    /\ last.op = "a"
    /\ "C" \in DOMAIN N.routes
    /\ Len(N.routes["C"]) = 2
    /\ N.routes["C"][1].addr = last.key
    /\ N.routes["C"][1].addr = "P2"
    /\ N.routes["C"][1].score > N.routes["C"][2].score

\* C4: every next-hop address of every route list is in the peer table.
C4_PeerRouteCoherence ==
    \A n \in DOMAIN nodes : \A c \in DOMAIN nodes[n].routes :
        \A i \in 1..Len(nodes[n].routes[c]) :
            nodes[n].routes[c][i].addr \in DOMAIN nodes[n].peers

\* an advert from a peer that sent no peer item has made it a peer and a
\* next hop
C4_Witness ==
    /\ last.op = "a" /\ last.tag = "new"
    /\ DOMAIN N.peers = {last.key}
    /\ "C" \in DOMAIN N.routes
    /\ Len(N.routes["C"]) = 1
    /\ N.routes["C"][1].addr = last.key

\* C7: a peer leaves the peer table only when its own timer fires, at or
\* after its eol (every peer has exactly one timer pending, that of its
\* current eol: a refresh cancels the old one); a firing peer timer removes
\* the peer and, from every route list, the entry of that peer and nothing
\* else.
C7_PeerExpiry ==
    [][\A n \in DOMAIN nodes :
         LET s == nodes[n]
             s2 == nodes'[n]
         IN /\ {tm \in s2.timers : tm.kind = "peer"}
                 = {Timer("peer", <<a, None>>, s2.peers[a].eol) : a \in DOMAIN s2.peers}
            /\ \A a \in DOMAIN s.peers :
                 a \notin DOMAIN s2.peers
                    => /\ now >= s.peers[a].eol
                       /\ \E tm \in s.timers : PeerTimerFires(n, tm)
            /\ \A tm \in s.timers :
                 PeerTimerFires(n, tm)
                    => /\ tm.key[1] \notin DOMAIN s2.peers
                       /\ DOMAIN s2.routes = DOMAIN s.routes
                       /\ \A c \in DOMAIN s.routes :
                             s2.routes[c] =
                                SelectSeq(s.routes[c], LAMBDA r : r.addr # tm.key[1])]_vars

\* the timer of a peer has fired and taken the peer's route entry with it,
\* the other peer's entry staying
C7_Witness ==
    /\ last.op = "peer_timeout"
    /\ last.key = "P1"
    /\ DOMAIN N.peers = {"P2"}
    /\ "C" \in DOMAIN N.routes
    /\ Len(N.routes["C"]) = 1
    /\ N.routes["C"][1].addr = "P2"

\* C9 as stated: within one message all peer items are handled before all
\* advert items, these before all get items, and these before all set items.
Rank4(kind) == CASE kind = "p" -> 0 [] kind = "a" -> 1 [] kind = "g" -> 2 [] kind = "s" -> 3

C9_Original ==
    last.op = "msg" =>
        \A x \in 1..Len(last.order), y \in 1..Len(last.order) :
            x < y => Rank4(last.kinds[last.order[x]]) <= Rank4(last.kinds[last.order[y]])

\* C9 amended: within one message every item is handled once; all peer items
\* are handled before all advert items and all advert items before all get
\* and set items; get and set items are handled in the order they have in
\* the message.
Rank3(kind) == CASE kind = "p" -> 0 [] kind = "a" -> 1 [] kind = "g" -> 2 [] kind = "s" -> 2

C9_HandlingOrder ==
    last.op = "msg" =>
        /\ Len(last.order) = Len(last.kinds)
        /\ Range(last.order) = 1..Len(last.kinds)
        /\ \A x \in 1..Len(last.order), y \in 1..Len(last.order) :
              x < y =>
                 LET kx == Rank3(last.kinds[last.order[x]])
                     ky == Rank3(last.kinds[last.order[y]])
                 IN /\ kx <= ky
                    /\ kx = ky => last.order[x] < last.order[y]

\* a message <<set, get, peer>> has been handled: peer, then set, then get
C9_Witness ==
    /\ last.op = "msg"
    /\ last.kinds = <<"s", "g", "p">>
    /\ last.order = <<3, 1, 2>>
    /\ "t" \in DOMAIN N.content_store
    /\ "t" \in DOMAIN N.interests

\* the tables and queues C10 speaks of
Tables(s) ==
    <<s.peers, s.clients, s.routes, s.interests, s.content_store,
      s.send_queue, s.broadcast_queue>>

\* an item with the key of a stored entry and the same or an older eol / at
Redelivered(s, it) ==
    CASE it.t = "a" -> /\ it.client \in DOMAIN s.clients
                       /\ it.eol <= s.clients[it.client].eol
      [] it.t = "g" -> /\ it.label \in DOMAIN s.interests
                       /\ it.client \in DOMAIN s.interests[it.label]
                       /\ it.eol <= s.interests[it.label][it.client].eol
      [] it.t = "s" -> /\ it.label \in DOMAIN s.content_store
                       /\ it.at <= s.content_store[it.label].at

\* addr is a peer that delivered an advert of this client before: it is a
\* next hop of the client
SamePeer(s, addr, it) ==
    it.t = "a" => \E i \in 1..Len(s.routes[it.client]) :
                        s.routes[it.client][i].addr = addr

\* C10 as stated: handling a redelivered advert, get or set from the same
\* peer leaves peers, clients, routes, interests, content store and both
\* queues unchanged, whatever its other fields are.
C10_Original ==
    [][\A n \in DOMAIN nodes, addr \in Addrs,
          it \in RedeliverAdverts \cup RedeliverItems :
         (/\ last'.op = it.t /\ last'.key = addr
          /\ Redelivered(nodes[n], it)
          /\ SamePeer(nodes[n], addr, it)
          /\ Receive(n, addr, [v |-> VERSION, items |-> <<it>>]))
         => Tables(nodes'[n]) = Tables(nodes[n])]_vars

\* C10 amended: handling a redelivered get or set leaves all of them
\* unchanged, whatever its other fields are; handling a redelivered advert
\* from peer P leaves clients, interests, content store and both queues
\* unchanged, and changes at most the peer entry of P (created when P is no
\* peer) and, in the route list of the advert's client, the entry of P, which
\* gets the advert's score.
C10_Redelivery ==
    [][\A n \in DOMAIN nodes, addr \in Addrs,
          it \in RedeliverAdverts \cup RedeliverItems :
         (/\ last'.op = it.t /\ last'.key = addr
          /\ Redelivered(nodes[n], it)
          /\ Receive(n, addr, [v |-> VERSION, items |-> <<it>>]))
         => LET s == nodes[n]
                s2 == nodes'[n]
            IN IF it.t = "a"
               THEN /\ s2.clients = s.clients
                    /\ s2.interests = s.interests
                    /\ s2.content_store = s.content_store
                    /\ s2.send_queue = s.send_queue
                    /\ s2.broadcast_queue = s.broadcast_queue
                    /\ DOMAIN s2.peers = DOMAIN s.peers \cup {addr}
                    /\ \A a \in DOMAIN s.peers : s2.peers[a] = s.peers[a]
                    /\ DOMAIN s2.routes = DOMAIN s.routes
                    /\ \A c \in DOMAIN s.routes \ {it.client} :
                          s2.routes[c] = s.routes[c]
                    /\ {r \in Range(s2.routes[it.client]) : r.addr # addr}
                         = {r \in Range(s.routes[it.client]) : r.addr # addr}
                    /\ [addr |-> addr, score |-> it.score]
                         \in Range(s2.routes[it.client])
               ELSE Tables(s2) = Tables(s)]_vars

\* an advert no newer than the stored one has been handled again from a peer
\* that is a next hop of its client, with another score, and has moved that
\* peer to the front of the route list
C10_Witness ==
    /\ last.op = "a" /\ last.tag = "old"
    /\ "C" \in DOMAIN N.routes
    /\ Len(N.routes["C"]) = 2
    /\ N.routes["C"][1].addr = last.key
    /\ N.routes["C"][1].score # N.clients["C"].score

C6_RouteFailover ==
    [][\A n \in DOMAIN nodes : \A b \in nodes[n].inflight :
         (last'.op = "send_msg" /\ last'.tag = "failed"
            /\ BatchSendReturns(n, b, FALSE))
         => \A e \in b.accepted :
              \E e2 \in nodes'[n].send_queue :
                 /\ e2.id = e.id
                 /\ IF nodes[n].is_main
                    THEN /\ e2.deadline = e.deadline
                         /\ Resolve(nodes'[n], e2)
                              = SelectSeq(Resolve(nodes[n], e),
                                          LAMBDA r : r.addr # b.addr)
                    ELSE e2.deadline = e.deadline + DEADLINE_EXT]_vars

\* C2: when B has called get for a label of A while it knew A, and A has
\* published d under the label, B's get eventually returns d, whether the
\* get reached A before the set or after it.
C2_TwoNodeDelivery ==
    \A d \in Datas :
        ((/\ \E w \in nodes["B"].waiters : w.label = "t" /\ w.known
          /\ "t" \in DOMAIN nodes["A"].content_store
          /\ nodes["A"].content_store["t"].data = d)
         ~> (\E w \in nodes["B"].waiters :
                w.label = "t" /\ w.state = "returned" /\ w.data = d))

\* B's get has returned a value that A published before the get reached A:
\* A held no interest of B when it published
C2_Witness ==
    /\ last.op = "get" /\ last.tag = "returned"
    /\ \E w \in nodes["B"].waiters :
          /\ w.known /\ w.state = "returned"
          /\ w.data = nodes["A"].content_store["t"].data
    /\ nodes["A"].content_store["t"].dst # <<>>
    /\ nodes["A"].content_store["t"].at < now - 1

\* C11: a client node that handles an advert of its own client name changes
\* neither the route table nor the client table and puts nothing on the send
\* queue or the broadcast queue.
C11_SelfIgnore ==
    [][\A n \in DOMAIN nodes, addr \in Addrs, it \in SelfAdverts :
         (/\ last'.op = "a" /\ last'.key = addr
          /\ it.client = nodes[n].advert.client
          /\ Receive(n, addr, [v |-> VERSION, items |-> <<it>>]))
         => /\ nodes'[n].routes = nodes[n].routes
            /\ nodes'[n].clients = nodes[n].clients
            /\ nodes'[n].send_queue = nodes[n].send_queue
            /\ nodes'[n].broadcast_queue = nodes[n].broadcast_queue
            /\ nodes'[n].batch_send_task = nodes[n].batch_send_task
            /\ nodes'[n].batch_broadcast_task = nodes[n].batch_broadcast_task]_vars

\* an advert of the node's own client name has been handled, from a peer the
\* node had not heard of, while the node holds a route to another client
C11_Witness ==
    /\ last.op = "a" /\ last.tag = "self"
    /\ "C" \in DOMAIN N.routes
    /\ last.key \in DOMAIN N.peers
    /\ \A i \in 1..Len(N.routes["C"]) : N.routes["C"][i].addr # last.key

\* C12: bytes that are no JSON, that carry another version than VERSION, or
\* in which the message or an item lacks a key or an item has an unknown
\* discriminator, leave the whole node as it was: no item of the message is
\* handled, the well-formed ones before the bad item included
C12_RejectedWhole ==
    [][(last'.op = "data" /\ last'.tag = "damaged") => nodes' = nodes]_vars

\* a peer item followed by an item of unknown discriminator arrived from an
\* address that is not a peer, and the address still is not a peer
C12_Witness ==
    /\ last.op = "data" /\ last.tag = "damaged" /\ last.kinds = <<"p", "x">>
    /\ last.key \notin DOMAIN N.peers
    /\ N.peers # EmptyMap

\* the bytes of a message decode to the message
CodecRoundTrip ==
    \A msg \in CodecMessages :
        MessageDecodes(ToBytes(msg)) /\ FromBytes(ToBytes(msg)) = msg

\* C13: every datagram a broadcast flush emits is at most BROADCAST_CAPACITY
\* bytes long or holds exactly one item, and every queued advert the flush
\* does not emit is still queued afterwards, with the deadline it had
C13_BroadcastSizeBound ==
    [][last'.op = "batch_broadcast" =>
         /\ \A m \in net' \ net :
               MsgLen(m.items) <= BROADCAST_CAPACITY \/ Len(m.items) = 1
         /\ \A e \in N.broadcast_queue :
               \/ \E m \in net' \ net : e.id \in m.ids
               \/ \E e2 \in nodes'["N"].broadcast_queue :
                     e2.id = e.id /\ e2.deadline = e.deadline]_vars

\* a flush emitted one advert of a long label list and refused the second,
\* which is still queued
C13_Witness ==
    /\ last.op = "batch_broadcast"
    /\ N.broadcast_queue # {}
    /\ \E m \in net : Len(m.items) = 1 /\ MsgLen(m.items) < BROADCAST_CAPACITY
                      /\ m.ids = {0}
    /\ \E m \in net : Len(m.items) = 1 /\ MsgLen(m.items) > BROADCAST_CAPACITY

\* C14: every advert put on the broadcast queue eventually is in an emitted
\* datagram, and no advert is in two emitted datagrams
C14_ExactlyOnce ==
    /\ \A id \in 0..(MaxBids - 1) :
          (\E e \in N.broadcast_queue : e.id = id)
             ~> (\E m \in net : m.emitted /\ id \in m.ids)
    /\ [](\A m1, m2 \in net :
             (m1.emitted /\ m2.emitted /\ m1 # m2) => m1.ids \cap m2.ids = {})

\* self.groups[GroupName] of node n, the group join would create before join
GroupOf(n) ==
    IF GroupName \in DOMAIN nodes[n].groups THEN nodes[n].groups[GroupName]
    ELSE NewGroup

\* C15: once X and Y have both called join, they eventually hold the same
\* group key and the same key time, for good
C15_KeyAgreement ==
    (nodes["X"].join.pc # "none" /\ nodes["Y"].join.pc # "none")
       ~> [](/\ GroupOf("X").at > 0
             /\ GroupOf("X").raw = GroupOf("Y").raw
             /\ GroupOf("X").at = GroupOf("Y").at)

\* C16: the key and key time of X's group change only when handle_invite
\* takes an invite signed by Y that either has at = 0 while the group has
\* at = 0 (a fresh key, at = now) or has at greater than the group's and
\* lists X (the invite's key and at); every other invite (bad signature,
\* at = 0 against a key, at no greater than the group's, X not listed) and
\* every other step leaves them as they were, and at never decreases
C16_GroupChanges ==
    [][LET g == GroupOf("X")
           g2 == GroupOf("X")'
       IN /\ g2.at >= g.at
          /\ (g2.raw # g.raw \/ g2.at # g.at) =>
                /\ last'.op = "invite"
                /\ LET outer == DecodeInvite(
                                   nodes["X"].content_store[InviteLabel("Y")].data)
                   IN /\ outer.s = "Y"
                      /\ \/ /\ outer.d.at = 0 /\ g.at = 0
                            /\ g2.at = now /\ g2.raw = [by |-> "X", at |-> now]
                         \/ /\ outer.d.at > g.at
                            /\ "X" \in DOMAIN outer.d.invites
                            /\ g2.at = outer.d.at
                            /\ g2.raw = outer.d.invites["X"]]_vars

\* X, which had minted a key of its own, has taken the newer key of an
\* invite of Y
C16_Witness ==
    /\ last.op = "invite" /\ last.tag = "adopted"
    /\ GroupOf("X").raw.by = "Y"
    /\ GroupOf("X").at = 3
    /\ \E d \in DOMAIN InviteTable :
          /\ InviteLabel("X") \in DOMAIN nodes["X"].content_store
          /\ nodes["X"].content_store[InviteLabel("X")].data = d
          /\ InviteTable[d].d.invites["Y"].by = "X"

\* C17 (as stated): on a non-main node every unicast batch goes to the main
\* node's address with every queued item in it, whatever the route lists
\* are, and every get the application issues (every iteration of the
\* subscribe loop) puts a tuple on the send queue toward the main node.
NewSendEntries == nodes'["N"].send_queue \ nodes["N"].send_queue
C17_AlwaysEnqueued ==
    [][/\ last'.op = "batch_send" =>
            /\ last'.tag = "sending" /\ last'.key = MainAddr
            /\ nodes'["N"].send_queue = {}
            /\ \A b \in nodes'["N"].inflight : b.addr = MainAddr
       /\ last'.op = "subscribe" =>
            \E e \in NewSendEntries :
                e.item.t = "g" /\ e.item.client = Me /\ e.item.eol > now]_vars

\* C17 (amended): the same for the batches; a get the application issues
\* puts a tuple with an empty route list on the send queue, due ttp later,
\* when on_get accepts it (no stored interest of the client for the label
\* with that eol or a later one), and none when on_get ignores it; every
\* message N writes goes to the main node.
C17_NonMainForwarding ==
    [][/\ last'.op = "batch_send" =>
            /\ last'.tag = "sending" /\ last'.key = MainAddr
            /\ nodes'["N"].send_queue = {}
            /\ \A b \in nodes'["N"].inflight : b.addr = MainAddr
       /\ (last'.op = "subscribe" /\ last'.tag = "new") =>
            \E e \in NewSendEntries :
                /\ e.item.t = "g" /\ e.item.client = Me /\ e.item.eol > now
                /\ e.client = None /\ e.routes = <<>>
                /\ e.deadline = now + Ttp
       /\ (last'.op = "subscribe" /\ last'.tag = "old") => NewSendEntries = {}
       /\ \A m \in net' : m.dst = MainAddr]_vars

\* the get of N's application has reached the main node while N knows no
\* publisher and no route
C17_Witness ==
    /\ nodes["N"].clients = EmptyMap
    /\ nodes["N"].routes = EmptyMap
    /\ \E m \in net : m.dst = MainAddr
          /\ \E k \in 1..Len(m.items) :
                m.items[k].t = "g" /\ m.items[k].client = Me

\* C18: get returns only new data: when a get returns, the label's entry had
\* at > last and last becomes that at; last never decreases, so two gets
\* made one after the other never return the same publication; every
\* content-store entry has at >= last in every reachable state.
StoreOf(n) == nodes[n].content_store
C19_UsageError ==
    [][(last'.op \in {"get", "set"} /\ nodes["N"].advert.client = None) =>
            (last'.tag = "error" /\ nodes' = nodes)]_vars

\* a get and a set were refused on a node without a client that holds a
\* publication, an interest, a queued item and a timer
Populated(s) ==
    /\ s.advert.client = None
    /\ s.content_store # EmptyMap /\ s.interests # EmptyMap
    /\ s.send_queue # {} /\ s.timers # {}
C19_Witness ==
    /\ Populated(nodes["N"])
    /\ last.op \in {"get", "set"} /\ last.tag = "error"

\* C20: the broadcast flush timer is always set strictly before the earliest
\* queued deadline, at the midpoint between the time it is set and that
\* deadline; it is set anew by every enqueue and every flush (and there is
\* none when the queue is empty); no advert is queued past its deadline, the
\* time it was accepted plus its ttp, and an advert leaves the queue only in
\* a datagram emitted by then.
BQ(s) == s.broadcast_queue
C20_TtpBound ==
    /\ [](\A tm \in nodes["N"].batch_broadcast_task :
             tm.eol2 < 2 * MinDeadline(BQ(nodes["N"])))
    /\ [][BQ(nodes'["N"]) # BQ(nodes["N"]) =>
             nodes'["N"].batch_broadcast_task =
                IF BQ(nodes'["N"]) = {} THEN {}
                ELSE {[eol2 |-> MinDeadline(BQ(nodes'["N"])) + now]}]_vars
    /\ [](\A e \in BQ(nodes["N"]) : now <= e.deadline)
    /\ [][\A e \in BQ(nodes["N"]) :
             (\A e2 \in BQ(nodes'["N"]) : e2.id # e.id) =>
                \E m \in net' \ net :
                    m.emitted /\ e.id \in m.ids /\ m.at <= e.deadline]_vars

\* no two adverts a node queued for rebroadcast have the same client and eol
C21_AtMostOnce ==
    [](\A e1, e2 \in BQ(N) :
          (e1.item.client = e2.item.client /\ e1.item.eol = e2.item.eol)
             => e1.id = e2.id)

\* C21: an advert is stored as the client's entry and queued for rebroadcast
\* only if its eol exceeds the stored eol of the client; an advert whose eol
\* does not exceed it changes at most the route list of the client and is
\* not queued; so no two queued adverts have the same client and eol,
\* whatever the number of peers the advert arrives from.
C21_FloodBound ==
    /\ [][last'.op = "a" =>
            LET queued == {e \in BQ(nodes'["N"]) : \A e0 \in BQ(N) : e0.id # e.id}
            IN /\ \A e \in queued :
                     \/ e.item.client \notin DOMAIN N.clients
                     \/ e.item.eol > N.clients[e.item.client].eol
               /\ (nodes'["N"].clients # N.clients) = (queued # {})
               /\ queued = {} =>
                     [nodes'["N"] EXCEPT !.routes = N.routes] = N]_vars
    /\ C21_AtMostOnce

\* C22: a set item a node sends from its unicast queue carries exactly one
\* destination, the client its queue tuple is for: the set item on_get
\* queued toward g.client has dst = [(g.ttp, g.client)] when it is sent,
\* also when gets of other clients for the label were handled in between.
C22_FulfilDst ==
    \A b \in N.inflight :
        LET order == PopOrder(b.accepted)
        IN \A k \in 1..Len(order) :
              order[k].item.t = "s" =>
                 /\ Len(b.items[k].dst) = 1
                 /\ b.items[k].dst[1][2] = order[k].client

\* C23: every advert in a datagram of a broadcast flush has the score it
\* was received with (MAX_SCORE - 1 for every advert of FlushAdverts) less
\* one decrement of this node, however many flushes it waited through and
\* however often it was refused for size and put back.
C23_DecrementedOnce ==
    \A m \in net : \A k \in 1..Len(m.items) :
        \E d \in ScoreDrops : m.items[k].score = (MAX_SCORE - 1) - d

\* C24: an accepted on_set on a label whose entry has a pending completion
\* handle wakes every get waiting on the label, and each of them returns the
\* data of the entry; the new entry has the `last` of the entry it replaces.
WaitingOn(s, label) == {w \in s.waiters : w.label = label /\ w.state = "waiting"}
C24_SetWakesAll ==
    /\ [][(last'.op = "s" /\ "t" \in DOMAIN N.content_store
             /\ nodes'["N"].content_store # N.content_store) =>
            /\ nodes'["N"].content_store["t"].last = N.content_store["t"].last
            /\ N.content_store["t"].fulfil = "pending" =>
                  /\ WaitingOn(nodes'["N"], "t") = {}
                  /\ \A w \in WaitingOn(N, "t") :
                        [w EXCEPT !.state = "woken"] \in nodes'["N"].waiters]_vars
    /\ [][(last'.op = "get" /\ last'.tag = "returned") =>
            \E w \in nodes'["N"].waiters \ N.waiters :
                /\ w.state = "returned"
                /\ w.data = N.content_store["t"].data /\ w.data # None
                /\ N.content_store["t"].at > w.after]_vars
    /\ \A c \in {ToString(k) : k \in 0..(MaxCallers - 1)} :
          (\E w \in N.waiters : w.caller = c /\ w.state = "woken")
             ~> (\E w \in N.waiters : w.caller = c /\ w.state = "returned")

\* two gets that waited on one handle were woken by one publication and
\* both have returned its data
C24_Witness ==
    \E w1, w2 \in N.waiters :
        /\ w1.caller # w2.caller
        /\ w1.state = "returned" /\ w2.state = "returned"
        /\ w1.after = w2.after /\ w1.data = w2.data /\ w1.data # None
        /\ N.content_store["t"].last = N.content_store["t"].at

\* C25: after a get that waited on a label was cancelled, an accepted on_set
\* for the label stores the entry, queues a set toward every destination of
\* s.dst other than the node's own client, and leaves no get waiting.
C25_SetAfterCancel ==
    [][(/\ last'.op = "s" /\ last'.tag = "new"
        /\ \E w \in N.waiters : w.label = "t" /\ w.state = "cancelled") =>
          \E it \in CancelSets :
             /\ nodes'["N"].content_store["t"].at = it.at
             /\ nodes'["N"].content_store["t"].dst = it.dst
             /\ \A i \in 1..Len(it.dst) :
                   it.dst[i][2] # Me =>
                      \E e \in nodes'["N"].send_queue :
                          /\ \A e0 \in N.send_queue : e0.id # e.id
                          /\ e.client = it.dst[i][2] /\ e.item.t = "s"
                          /\ e.item.at = it.at
             /\ WaitingOn(nodes'["N"], "t") = {}]_vars

\* C26: while a get waits, every iteration of its loop hands on_get an
\* interest of the own client with eol = now + ttl and sleeps ttl / tpf, and
\* the own interest does not time out; the loop of a get that has returned
\* or was cancelled runs no further iteration.
C26_KeepAlive ==
    /\ [][last'.op = "subscribe" =>
            /\ last'.tag \in {"waiting", "woken"}
            /\ nodes'["N"].interests["t"][Me].eol >= now + AliveTtl
            /\ \E tm \in nodes'["N"].timers :
                  /\ tm.kind = "subscribe" /\ tm.key = <<"t", last'.key>>
                  /\ tm.eol = now + (AliveTtl \div Tpf)]_vars
    /\ [][(last'.op = "interest_timeout" /\ last'.key = Me) =>
            WaitingOn(N, "t") = {}]_vars

\* C27: when on_set accepts a publication (a set item received from a peer, or
\* the one set() hands it), the send queue gains exactly one tuple per
\* (ttp, client) pair of the publication's dst whose client is not the node's
\* own: the tuple is targeted at that client, is due at now + ttp and carries
\* a set item with the same label, data and at whose dst is that one pair;
\* pairs naming the own client add nothing.
SetClones == {e \in nodes'["N"].send_queue :
                \A e0 \in N.send_queue : e0.id # e.id}
StoredDst == LET c == nodes'["N"].content_store["t"]
             IN {c.dst[i] : i \in 1..Len(c.dst)}
Holders(s) == IF "t" \in DOMAIN s.interests THEN DOMAIN s.interests["t"]
              ELSE {}
C28_UnexpiredDst ==
    [][(last'.op = "set" /\ last'.tag = "new") =>
          /\ StoredDst = {<<N.interests["t"][c].ttp, c>> :
                            c \in {h \in Holders(N) :
                                     N.interests["t"][h].eol > now}}
          /\ Len(nodes'["N"].content_store["t"].dst) = Cardinality(StoredDst)
          /\ (StoredDst = {} =>
                {e.id : e \in nodes'["N"].send_queue}
                   = {e.id : e \in N.send_queue})]_vars

\* C28 (amended): dst names exactly the clients that have an entry in the
\* interest table for the label at the time of the call, each once and with
\* the ttp of its entry; set() does not look at eol, so an interest that is
\* past its eol and whose timer has not run yet is a destination too.
\* Without an entry dst is empty and the value is only stored.
C28_InterestTableDst ==
    [][(last'.op = "set" /\ last'.tag = "new") =>
          /\ StoredDst = {<<N.interests["t"][c].ttp, c>> : c \in Holders(N)}
          /\ Len(nodes'["N"].content_store["t"].dst) = Cardinality(StoredDst)
          /\ (StoredDst = {} =>
                {e.id : e \in nodes'["N"].send_queue}
                   = {e.id : e \in N.send_queue})]_vars

\* set() has just published toward C and D, and the interest of C was
\* already past its eol
C28_Witness ==
    /\ last.op = "set" /\ last.tag = "new"
    /\ Holders(N) = {"C", "D"}
    /\ N.interests["t"]["C"].eol <= now
    /\ N.interests["t"]["D"].eol > now
    /\ N.content_store["t"].at = now
    /\ Len(N.content_store["t"].dst) = 2
    /\ \E e \in N.send_queue : e.client = "C" /\ e.item.t = "s"

\* C29: when on_get accepts a get g, the send queue gains exactly one tuple
\* carrying g toward every client of the client table (the node's own client
\* excepted) whose stored advert lists g.label; each is due at now + g.ttp
\* and holds that client's route list.  No tuple carrying g goes toward a
\* client whose advert does not list the label.
SendPuts == {e \in nodes'["N"].send_queue :
               \A e0 \in N.send_queue : e0.id # e.id}
Listing(s, label) ==
    {c \in DOMAIN s.clients :
        /\ \E i \in 1..Len(s.clients[c].labels) : s.clients[c].labels[i] = label
        /\ c # OwnClient(s)}
C29_GetForwarding ==
    [][(last'.op = "g" /\ last'.tag = "new") =>
          \E label \in {"t", "u"} :
            /\ label \in DOMAIN nodes'["N"].interests
            /\ last'.key \in DOMAIN nodes'["N"].interests[label]
            /\ ~(/\ label \in DOMAIN N.interests
                 /\ last'.key \in DOMAIN N.interests[label]
                 /\ N.interests[label][last'.key] =
                       nodes'["N"].interests[label][last'.key])
            /\ LET g == nodes'["N"].interests[label][last'.key]
                   toward == {e \in SendPuts : e.client # None /\ e.item.t = "g"}
               IN /\ \A e \in toward :
                        /\ e.item = g
                        /\ e.client \in Listing(N, label)
                        /\ e.deadline = now + g.ttp
                        /\ e.alias
                        /\ Resolve(nodes'["N"], e) = N.routes[e.client]
                  /\ \A c \in Listing(N, label) :
                        Cardinality({e \in toward : e.client = c}) = 1]_vars

\* a get of D for t was accepted while C and D both list t: one tuple toward
\* each is on the queue
C29_Witness ==
    /\ last.op = "g" /\ last.tag = "new" /\ last.key = "D"
    /\ Listing(N, "t") = {"C", "D"}
    /\ \A c \in {"C", "D"} : \E e \in N.send_queue :
          /\ e.client = c /\ e.item.t = "g" /\ e.item.client = "D"
          /\ e.deadline = now + 1

\* C30: when on_advert accepts an advert, for every label it lists that the
\* advert stored before for that client did not list (every label when none
\* was stored), each interest of the interest table for that label is put on
\* the send queue toward the advertising client, due at now + interest.ttp;
\* labels the stored advert listed already put nothing on the queue.
FreshLabels ==
    LET c == last'.key
        lists(s) == IF c \in DOMAIN s.clients
                    THEN {s.clients[c].labels[i] :
                            i \in 1..Len(s.clients[c].labels)}
                    ELSE {}
    IN lists(nodes'["N"]) \ lists(N)
C30_LatePublisher ==
    [][(last'.op = "a" /\ last'.tag = "new") =>
          /\ \A label \in FreshLabels \cap DOMAIN N.interests :
                \A k \in DOMAIN N.interests[label] :
                   Cardinality({e \in SendPuts :
                       /\ e.client = last'.key
                       /\ e.item = N.interests[label][k]
                       /\ e.deadline = now + N.interests[label][k].ttp
                       /\ e.alias}) = 1
          /\ \A e \in SendPuts :
                /\ e.client = last'.key
                /\ e.item.t = "g"
                /\ e.item.label \in FreshLabels
                /\ e.item = N.interests[e.item.label][e.item.client]]_vars

\* C lists u besides t from now on, interests in t and in u are stored, and
\* the queue holds the interest in u toward C, due ttp from now, and every
\* interest in t toward C once, as on_get queued it
C30_Witness ==
    /\ last.op = "a" /\ last.tag = "new" /\ last.key = "C"
    /\ N.clients["C"].labels = <<"t", "u">>
    /\ "t" \in DOMAIN N.interests /\ "u" \in DOMAIN N.interests
    /\ \E e \in N.send_queue :
          /\ e.client = "C" /\ e.item.t = "g" /\ e.item.label = "u"
          /\ e.deadline = now + 2
    /\ \A k \in DOMAIN N.interests["t"] :
          Cardinality({e \in N.send_queue :
              e.client = "C" /\ e.item = N.interests["t"][k]}) = 1

\* C31: the message a flush of a main node hands to send_msg is made of the
\* queued tuples whose first route (routes[0].addr) is the message's
\* destination; the destination is the first route of a tuple of the earliest
\* deadline among those that have a route; the tuples whose first route is
\* another peer are back on the queue with their deadline and routes as they
\* were.
Routable(s) == {e \in s.send_queue : Resolve(s, e) # <<>>}
C31_OneNextHop ==
    [][(last'.op = "batch_send" /\ last'.tag = "sending" /\ N.is_main) =>
          \E b \in nodes'["N"].inflight :
            /\ b \notin N.inflight
            /\ b.addr = last'.key
            /\ b.accepted =
                 {e \in Routable(N) : Resolve(N, e)[1].addr = b.addr}
            /\ Len(b.items) = Cardinality(b.accepted)
            /\ \A k \in 1..Len(b.items) :
                  \E e \in b.accepted : b.items[k] = ItemOf(N, e)
            /\ \E f \in Routable(N) :
                  /\ Resolve(N, f)[1].addr = b.addr
                  /\ \A e \in Routable(N) : f.deadline <= e.deadline
            /\ \A e \in Routable(N) :
                  Resolve(N, e)[1].addr # b.addr =>
                     /\ e \in nodes'["N"].send_queue
                     /\ Resolve(nodes'["N"], e) = Resolve(N, e)]_vars

\* a main node is sending to one peer while a tuple whose first route is the
\* other peer is back on the queue
C31_Witness ==
    /\ last.op = "batch_send" /\ last.tag = "sending" /\ N.is_main
    /\ \E b \in N.inflight : \E e \in N.send_queue :
          /\ b.addr = last.key /\ b.accepted # {}
          /\ Resolve(N, e) # <<>> /\ Resolve(N, e)[1].addr # b.addr

\* C32: in a flush of a main node every queued tuple whose route list is
\* empty is put back DEADLINE_EXT later, holding the route table's list for
\* its client when the table has one; the tuples that have a route are sent
\* in that flush all the same; and a tuple toward D that waits with an empty
\* list is, once the route table has a route to D, eventually sent to the
\* first peer of that route list.
SetForD(m) ==
    \E k \in 1..Len(m.items) :
        m.items[k].t = "s" /\ m.items[k].dst = <<(<<1, "D">>)>>
C32_NoRoutePushedBack ==
    /\ [][(last'.op = "batch_send" /\ N.is_main) =>
            /\ \A e \in N.send_queue :
                  Resolve(N, e) = <<>> =>
                     \E e2 \in nodes'["N"].send_queue :
                        /\ e2.id = e.id /\ e2.item = e.item /\ e2.client = e.client
                        /\ e2.deadline = e.deadline + DEADLINE_EXT
                        /\ e2.alias = (e.client \in DOMAIN N.routes)
                        /\ Resolve(nodes'["N"], e2) =
                             IF e.client \in DOMAIN N.routes
                             THEN N.routes[e.client] ELSE <<>>
            /\ Routable(N) # {} =>
                  /\ last'.tag = "sending"
                  /\ \E b \in nodes'["N"].inflight :
                        b \notin N.inflight /\ b.accepted # {}
                          /\ b.accepted \subseteq Routable(N)]_vars
    /\ (/\ "D" \in DOMAIN N.routes /\ N.routes["D"] # <<>>
        /\ \E e \in N.send_queue :
              e.client = "D" /\ ~e.alias /\ e.routes = <<>>)
         ~> (/\ "D" \in DOMAIN N.routes /\ N.routes["D"] # <<>>
             /\ \E m \in net : m.dst = N.routes["D"][1].addr /\ SetForD(m))

\* the publication for D went to the peer D was learned from, after its
\* tuple had been pushed back and C's get had been sent
C32_Witness ==
    /\ now >= DEADLINE_EXT
    /\ "D" \in DOMAIN N.routes /\ N.routes["D"] # <<>>
    /\ \E m \in net : m.dst = N.routes["D"][1].addr /\ SetForD(m)
    /\ \E m \in net : \E k \in 1..Len(m.items) : m.items[k].t = "g"
    /\ \A e \in N.send_queue : e.client # "D"

\* C33: when send_msg fails, the tuples of the batch are back on the queue
\* and differ from what they were in their route lists only (deadline, client
\* and item as before); the other queued tuples, the route table, the peer
\* table and the client table are as before the failure.
FailedBatch == CHOOSE b \in N.inflight :
                  b.addr = last'.key /\ b \notin nodes'["N"].inflight
TablesKept ==
    /\ nodes'["N"].routes = N.routes
    /\ nodes'["N"].peers = N.peers
    /\ nodes'["N"].clients = N.clients
    /\ N.send_queue \subseteq nodes'["N"].send_queue
    /\ \A e2 \in nodes'["N"].send_queue \ N.send_queue :
          \E e \in FailedBatch.accepted : e2.id = e.id
C33_OnlyRouteLists ==
    [][(last'.op = "send_msg" /\ last'.tag = "failed") =>
          /\ TablesKept
          /\ \A e \in FailedBatch.accepted :
                \E e2 \in nodes'["N"].send_queue :
                   /\ e2.id = e.id /\ e2.client = e.client
                   /\ e2.item = e.item /\ e2.sref = e.sref
                   /\ e2.deadline = e.deadline]_vars

\* C33 (amended): when send_msg fails, the tuples of the batch are back on
\* the queue with their route list cut by its first entry (routes[1:], a list
\* of their own) and, on a non-main node, their deadline DEADLINE_EXT later;
\* client and item are as before, and so are the other queued tuples, the
\* route table, the peer table and the client table.
C33_FailedSend ==
    [][(last'.op = "send_msg" /\ last'.tag = "failed") =>
          /\ TablesKept
          /\ \A e \in FailedBatch.accepted :
                \E e2 \in nodes'["N"].send_queue :
                   /\ e2.id = e.id /\ e2.client = e.client
                   /\ e2.item = e.item /\ e2.sref = e.sref
                   /\ e2.deadline = e.deadline
                        + (IF N.is_main THEN 0 ELSE DEADLINE_EXT)
                   /\ ~e2.alias
                   /\ Resolve(nodes'["N"], e2) =
                        IF Resolve(N, e) = <<>> THEN <<>>
                        ELSE Tail(Resolve(N, e))]_vars

\* a send of a main node failed: its tuple is back with the second route of
\* the two the table has for C
C33_Witness ==
    /\ last.op = "send_msg" /\ last.tag = "failed" /\ N.is_main
    /\ "C" \in DOMAIN N.routes /\ Len(N.routes["C"]) = 2
    /\ \E e \in N.send_queue :
          ~e.alias /\ e.client = "C" /\ e.routes = Tail(N.routes["C"])

\* C34: each iteration of the regular broadcast of a node runs ttl / tpf
\* after the one before and sends every other node a datagram of a peer item
\* with eol = now + ttl followed, on a client node, by the node's own advert
\* with that eol and score MAX_SCORE; no broadcast-queue tuple of a node holds
\* an advert of the node's own client, and the score of the own advert stays
\* MAX_SCORE.
C34_Heartbeat ==
    /\ [][last'.op = "heartbeat" =>
            LET n == last'.key
                s == nodes[n]
                items == IF s.advert.client = None
                         THEN <<PeerItem(now + Ttl)>>
                         ELSE <<PeerItem(now + Ttl),
                                AdvertItem(s.advert.client, s.advert.labels,
                                           MAX_SCORE, s.advert.ttp, now + Ttl)>>
            IN /\ \A m \in DOMAIN nodes \ {n} :
                     [src |-> n, dst |-> m, items |-> items] \in net'
               /\ \A x \in net' \ net : x.src = n /\ x.items = items
               /\ \E tm \in s.timers : tm.kind = "heartbeat" /\ tm.eol = now
               /\ \E tm \in nodes'[n].timers :
                     tm.kind = "heartbeat" /\ tm.eol = now + (Ttl \div Tpf)
               /\ nodes'[n].advert = s.advert]_vars
    /\ [](\A n \in DOMAIN nodes :
             /\ \A e \in nodes[n].broadcast_queue :
                   AdvertOf(nodes[n], e).client # nodes[n].advert.client
             /\ nodes[n].advert.client # None =>
                   nodes[n].advert.score = MAX_SCORE)

\* A broadcasts for the second time, with score MAX_SCORE, after R has
\* lowered the score of the advert of A it holds and sent it on
C34_Witness ==
    /\ last.op = "heartbeat" /\ last.key = "A" /\ now = 1 + (Ttl \div Tpf)
    /\ "A" \in DOMAIN nodes["R"].clients
    /\ nodes["R"].clients["A"].score < MAX_SCORE
    /\ \E m \in net :
          /\ m.src = "A" /\ Len(m.items) = 2
          /\ m.items[1] = PeerItem(now + Ttl)
          /\ m.items[2].score = MAX_SCORE /\ m.items[2].eol = now + Ttl

\* C35: on_get replaces a stored interest of (label, client) only by a get of
\* a strictly later eol, a get that is not accepted queues nothing, and a
\* node queues a given get (label, client, eol) toward a given publisher at
\* most once: no accepted get adds a tuple whose item and target an earlier
\* tuple of the node had already.
C35_ForwardedOnce ==
    [][last'.op = "g" =>
          /\ \A label \in {"t", "u"} :
                (/\ label \in DOMAIN N.interests
                 /\ last'.key \in DOMAIN N.interests[label]
                 /\ label \in DOMAIN nodes'["N"].interests
                 /\ last'.key \in DOMAIN nodes'["N"].interests[label]
                 /\ nodes'["N"].interests[label][last'.key]
                       # N.interests[label][last'.key])
                => nodes'["N"].interests[label][last'.key].eol
                       > N.interests[label][last'.key].eol
          /\ last'.tag = "old" => nodes'["N"] = N
          /\ \A e \in SendPuts : \A e0 \in N.send_queue :
                (e.item.t = "g" /\ e.client # None)
                    => ~(e0.item = e.item /\ e0.client = e.client)]_vars

\* C36: after every handler and every timer callback the client names that
\* have a route list are the client names that have a stored advert, and the
\* callback of a client's timer removes the client's advert and its whole
\* route list, whatever the list holds, and nothing of the other clients.
C36_ClientRouteAgreement ==
    /\ [](DOMAIN N.routes = DOMAIN N.clients)
    /\ [][last'.op = "client_timeout" =>
            /\ last'.key \in DOMAIN N.clients
            /\ DOMAIN nodes'["N"].clients = DOMAIN N.clients \ {last'.key}
            /\ DOMAIN nodes'["N"].routes = DOMAIN N.routes \ {last'.key}
            /\ nodes'["N"].peers = N.peers]_vars

\* the timer of C has fired while a peer that C was heard from is still a
\* peer: neither an advert nor a route list of C is left
C36_Witness ==
    /\ last.op = "client_timeout" /\ last.key = "C"
    /\ "C" \notin DOMAIN N.clients /\ "C" \notin DOMAIN N.routes
    /\ DOMAIN N.peers # {}

\* C37: whatever join calls were made for group g and whichever loops
\* obtained keys, the advertised label list of the node holds g/own_client
\* exactly once from the first join call on, holds g//label at most once for
\* every label of the group and exactly once after a key was obtained, and
\* holds the labels the client started with as before.
Count(seq, x) == Cardinality({i \in 1..Len(seq) : seq[i] = x})
C37_NoDuplicateLabels ==
    GroupName \in DOMAIN N.groups =>
        /\ Count(N.advert.labels, InviteLabel(Me)) = 1
        /\ \A label \in Range(N.groups[GroupName].labels) :
              Count(N.advert.labels, GroupLabel(label))
                 = IF N.changes > 0 THEN 1 ELSE 0
        /\ Len(N.advert.labels)
              = Count(N.advert.labels, "t") + 1
                  + (IF N.changes > 0 THEN Len(N.groups[GroupName].labels) ELSE 0)
        /\ Count(N.advert.labels, "t") <= 1

\* both loops run, keys were obtained more than once, and the list is the
\* start label, g/me and the two group labels
C37_Witness ==
    /\ N.loops = {"X", "Y"} /\ N.changes > 1
    /\ last.op = "key" /\ last.key = "Y"
    /\ N.advert.labels = <<"t", InviteLabel(Me), GroupLabel("a"), GroupLabel("b")>>

\* C38: a get under a group returns to its caller the plaintext a member
\* published with set under the key the node holds: every group get that
\* has returned carries one of the published values, and that value
\* encrypted with the node's key is what the content store held; a stored
\* value made with another key is never answered with the undecrypted
\* string or with anything that is not data
GroupReturned ==
    {w \in N.waiters : w.state = "returned" /\ w.label = GroupLabel("t")}
C38_GroupGet ==
    \A w \in GroupReturned : w.data \in Datas
====
